---- MODULE Spec2Model ----
(***************************************************************************)
(* UKS persistent graph store: the lock marker, the per-context graph      *)
(* files, the backup directory, and the operations of                      *)
(* KnowledgeGraphManager and BackupManager on them.                        *)
(*                                                                         *)
(* File names that the code compares as strings (startsWith, sort) are     *)
(* sequences of characters; a character is a one-character string, and     *)
(* the two fixed affixes "graph-" and ".jsonl" are one token each.         *)
(***************************************************************************)
EXTENDS Integers, Sequences, FiniteSets, TLC

\* ------------------------------------------------------------------ bounds
\* The clock takes the values 0..MaxTime (one value per millisecond tick).
MaxTime == 1
\* At most MaxOps calls of the sequential caller.
MaxOps == 3
\* The processes that share the storage directory are 1..NumProcs.
NumProcs == 2

VARIABLES
    graphFiles,   \* context |-> lines of graph-<context>.jsonl; DOMAIN = files that exist
    backups,      \* backup file name |-> lines; DOMAIN = files in .backups/
    lockFile,     \* the .lock marker
    now,          \* the wall clock, in milliseconds
    uuids,        \* number of crypto.randomUUID() draws so far
    maxBackups,   \* BackupManager.maxBackups
    history,      \* the completed calls, oldest first: arguments, outcome, pre-state
    pc,           \* process |-> the step of its call it is at
    tries,        \* process |-> i, the loop counter of acquireLock
    seen,         \* process |-> lockContent, what it last read from the marker
    mem,          \* process |-> the graph it holds in memory
    calls,        \* process |-> its call and the call's outcome
    alive,        \* the processes that have not crashed
    vectorFile,   \* vectors.jsonl: its records in line order, none while absent
    vectors,      \* process |-> the records of its VectorManager, in memory
    isLoaded,     \* process |-> `loaded`: whether its VectorManager has read vectors.jsonl
    disk          \* path under an FsDriver's basePath |-> directory or file content

procVars == <<pc, tries, seen, mem, calls, alive>>

vecVars == <<vectorFile, vectors, isLoaded, disk>>

vars == <<graphFiles, backups, lockFile, now, uuids, maxBackups, history, procVars, vecVars>>

\* ------------------------------------------------------- strings and names
\* UTF-16 code units of the characters that occur in file names.
Code(c) ==
    CASE c = "-" -> 45
      [] c = ".jsonl" -> 46
      [] c = "0" -> 48 [] c = "1" -> 49 [] c = "2" -> 50 [] c = "3" -> 51
      [] c = "4" -> 52 [] c = "5" -> 53 [] c = "6" -> 54 [] c = "7" -> 55
      [] c = "8" -> 56 [] c = "9" -> 57
      [] c = "a" -> 97 [] c = "b" -> 98 [] c = "d" -> 100 [] c = "e" -> 101
      [] c = "f" -> 102 [] c = "graph-" -> 103 [] c = "l" -> 108
      [] c = "t" -> 116 [] c = "u" -> 117

Digits == <<"0", "1", "2", "3", "4", "5", "6", "7", "8", "9">>

\* new Date().toISOString().replace(/[:.]/g, '-'): fixed width, most significant
\* digit first.
Timestamp(t) == <<Digits[(t \div 10) + 1], Digits[(t % 10) + 1]>>

\* String.prototype.startsWith
StartsWith(f, p) == Len(f) >= Len(p) /\ SubSeq(f, 1, Len(p)) = p

\* The order Array.prototype.sort() uses without a comparator: by code unit,
\* a proper prefix before its extensions.
RECURSIVE StrLess(_, _)
StrLess(a, b) ==
    IF a = <<>> THEN b # <<>>
    ELSE IF b = <<>> THEN FALSE
    ELSE IF Code(Head(a)) # Code(Head(b)) THEN Code(Head(a)) < Code(Head(b))
    ELSE StrLess(Tail(a), Tail(b))

\* files.sort().reverse(): greatest name first.
RECURSIVE SortReverse(_)
SortReverse(S) ==
    IF S = {} THEN <<>>
    ELSE LET m == CHOOSE x \in S : \A y \in S \ {x} : StrLess(y, x)
         IN  <<m>> \o SortReverse(S \ {m})

DefaultContext == <<"d", "e", "f", "a", "u", "l", "t">>
CtxA == <<"a">>
CtxAB == <<"a", "-", "b">>

\* ------------------------------------------------------------- the file system
NoFiles == [c \in {} |-> <<>>]

PutFile(dir, name, content) ==
    [f \in DOMAIN dir \cup {name} |-> IF f = name THEN content ELSE dir[f]]

Unlink(dir, names) == [f \in DOMAIN dir \ names |-> dir[f]]

\* --------------------------------------------------------------- the lock
Self == 1
NaN == 0 - 1

NoLock == [exists |-> FALSE, creator |-> 0, content |-> "", old |-> FALSE]

\* lockTimeoutMs and lockRetries as the constructor sets them (defaults).
lockRetries == 3

\* parseInt(lockContent.trim(), 10)
ParseInt(s, pids) ==
    IF \E p \in pids : ToString(p) = s
    THEN CHOOSE p \in pids : ToString(p) = s
    ELSE NaN

\* acquireLock run by the only process of the storage directory: no step of
\* another process falls between its file-system calls.
RECURSIVE AcquireLockAlone(_, _, _)
AcquireLockAlone(lock, self, i) ==
    IF i >= lockRetries THEN [ok |-> FALSE, lock |-> lock]
    ELSE IF ~lock.exists
    THEN [ok |-> TRUE,
          lock |-> [exists |-> TRUE, creator |-> self,
                    content |-> ToString(self), old |-> FALSE]]
    ELSE LET lockPid == ParseInt(lock.content, {self})
             processAlive == lockPid # NaN /\ lockPid = self
         IN  IF ~processAlive THEN AcquireLockAlone(NoLock, self, i + 1)
             ELSE IF lock.old THEN AcquireLockAlone(NoLock, self, i + 1)
             ELSE AcquireLockAlone(lock, self, i + 1)

\* releaseLock: unlink only a marker that records the caller's pid.
ReleaseLock(lock, self) ==
    IF lock.exists /\ lock.content = ToString(self) THEN NoLock ELSE lock

\* ----------------------------------------------------------- serialization
fileMarker == [type |-> "_aim", source |-> "local-knowledge-graph", version |-> "1.1.0"]

EntityLine(e) ==
    [type |-> "entity", id |-> e.id, name |-> e.name,
     entityType |-> e.entityType, observations |-> e.observations]

RelationLine(r) ==
    [type |-> "relation", fromId |-> r.fromId, toId |-> r.toId,
     fromName |-> r.fromName, toName |-> r.toName, relationType |-> r.relationType]

\* The lines updateGraph writes: header, entities, relations.
Serialize(graph) ==
    <<fileMarker>>
        \o [i \in 1..Len(graph.entities) |-> EntityLine(graph.entities[i])]
        \o [i \in 1..Len(graph.relations) |-> RelationLine(graph.relations[i])]

EmptyGraph == [entities |-> <<>>, relations |-> <<>>]

\* crypto.createHash('md5').update(name).digest('hex')
Md5(name) == "md5:" \o name

\* A line of a graph file is a JSON object (a record of its members), a JSON
\* value that is not an object ([json |-> ...]) or text that is not JSON
\* ([text |-> ...]).
\* line.trim() === ''
IsBlank(line) == "text" \in DOMAIN line /\ line.text \in {"", " "}

\* !item.id
NoId(item) == "id" \notin DOMAIN item \/ item.id = ""

\* What the try block of the reducer raises: the SyntaxError of JSON.parse,
\* the TypeError of null.type, the TypeError of update(undefined).
Throws(line) ==
    \/ "text" \in DOMAIN line
    \/ "json" \in DOMAIN line /\ line.json = "null"
    \/ /\ "type" \in DOMAIN line /\ line.type = "entity"
       /\ NoId(line) /\ "name" \notin DOMAIN line

\* item.type === t in a line that raised nothing.
SelectType(lines, t) ==
    SelectSeq(lines, LAMBDA line : /\ ~Throws(line)
                                   /\ "type" \in DOMAIN line /\ line.type = t)

\* item.id = md5(item.name) for an item without id.
WithId(item) ==
    IF ~NoId(item) THEN item
    ELSE [f \in DOMAIN item \cup {"id"} |-> IF f = "id" THEN Md5(item.name) ELSE item[f]]

\* loadGraph as it would be if a line at which the reducer raises ended the
\* load.
LoadGraphFatal(files, context) ==
    IF context \notin DOMAIN files THEN EmptyGraph
    ELSE IF \E i \in DOMAIN files[context] :
                ~IsBlank(files[context][i]) /\ Throws(files[context][i])
    THEN EmptyGraph
    ELSE LET items == SelectType(files[context], "entity")
         IN  [entities |-> [i \in 1..Len(items) |-> WithId(items[i])],
              relations |-> SelectType(files[context], "relation")]

\* loadGraph: an absent file is the empty graph; otherwise the entity and the
\* relation items of the lines that are not blank, in file order. A line at
\* which the reducer raises is skipped.
LoadGraph(files, context) ==
    IF context \notin DOMAIN files THEN EmptyGraph
    ELSE LET lines == SelectSeq(files[context], LAMBDA line : ~IsBlank(line))
             items == SelectType(lines, "entity")
         IN  [entities |-> [i \in 1..Len(items) |-> WithId(items[i])],
              relations |-> SelectType(lines, "relation")]

\* ------------------------------------------------------------ the mutators
\* Array.find: the least index of a set of indices, 0 when it is empty.
First(indices) ==
    IF indices = {} THEN 0 ELSE CHOOSE i \in indices : \A j \in indices : i <= j

\* graph.entities.find(e => e.name === name)
FindByName(graph, name) ==
    First({i \in 1..Len(graph.entities) : graph.entities[i].name = name})

Includes(s, x) == \E i \in 1..Len(s) : s[i] = x

\* (entity.entityType || 'Concept')
OrConcept(entityType) == IF entityType = "" THEN "Concept" ELSE entityType

\* flavor.toLowerCase().replace(/[^a-z0-9-]/g, '')
CleanFlavor(flavor) ==
    CASE flavor = "Database" -> "database"
      [] flavor = "Concept" -> "concept"
      [] OTHER -> flavor

\* crypto.randomUUID(): the n-th draw differs from every earlier one.
RandomUUID(n) == "uuid" \o ToString(n)

NewId(entityType, n) ==
    "urn:uks:local:" \o CleanFlavor(OrConcept(entityType)) \o ":" \o RandomUUID(n)

\* The new observations addEntity appends to an existing entity.
NewObs(observations, existingObs) ==
    SelectSeq(observations, LAMBDA o : ~Includes(existingObs, o))

\* addEntity's mutator as it would be if a merge kept only the new observations.
AddEntityReplace(entity, graph, n) ==
    LET i == FindByName(graph, entity.name)
    IN  IF i # 0
        THEN [graph |-> [graph EXCEPT !.entities[i].observations = entity.observations],
              threw |-> "", entityId |-> graph.entities[i].id, drawn |-> n]
        ELSE [graph |-> [graph EXCEPT !.entities = Append(@,
                            [id |-> NewId(entity.entityType, n), name |-> entity.name,
                             entityType |-> OrConcept(entity.entityType),
                             observations |-> entity.observations])],
              threw |-> "", entityId |-> NewId(entity.entityType, n), drawn |-> n + 1]

\* addEntity's mutator as it would be if it pushed a record without looking
\* for an entity of the name.
AddEntityPush(entity, graph, n) ==
    [graph |-> [graph EXCEPT !.entities = Append(@,
                   [id |-> NewId(entity.entityType, n), name |-> entity.name,
                    entityType |-> OrConcept(entity.entityType),
                    observations |-> entity.observations])],
     threw |-> "", entityId |-> NewId(entity.entityType, n), drawn |-> n + 1]

\* The mutator of addEntity. `n` is the number of UUIDs drawn before it runs.
AddEntityMutator(entity, graph, n) ==
    LET i == FindByName(graph, entity.name)
    IN  IF i # 0
        THEN LET existing == graph.entities[i]
                 merged == existing.observations
                           \o NewObs(entity.observations, existing.observations)
             IN  [graph |-> [graph EXCEPT !.entities[i] =
                                [existing EXCEPT !.observations = merged]],
                  threw |-> "", entityId |-> existing.id, drawn |-> n]
        ELSE LET newId == NewId(entity.entityType, n)
             IN  [graph |-> [graph EXCEPT !.entities = Append(@,
                                [id |-> newId, name |-> entity.name,
                                 entityType |-> OrConcept(entity.entityType),
                                 observations |-> entity.observations])],
                  threw |-> "", entityId |-> newId, drawn |-> n + 1]

\* graph.entities.find(e => e.name === ref || e.id === ref)
Resolve(graph, ref) ==
    First({i \in 1..Len(graph.entities) :
              graph.entities[i].name = ref \/ graph.entities[i].id = ref})

RelationExistsNever(graph, fromEntity, toEntity, relationType) == FALSE
RelationExists(graph, fromEntity, toEntity, relationType) ==
    \E k \in 1..Len(graph.relations) :
        /\ graph.relations[k].fromId = fromEntity.id
        /\ graph.relations[k].toId = toEntity.id
        /\ graph.relations[k].relationType = relationType

\* addRelation as it would be if it created a missing target the way the
\* ingest pipeline does.
AddRelationVivify(relation, graph, n) ==
    LET f == Resolve(graph, relation.from)
        t == Resolve(graph, relation.to)
    IN  IF f = 0
        THEN [graph |-> graph, threw |-> "NOT_FOUND", entityId |-> "", drawn |-> n]
        ELSE LET fromEntity == graph.entities[f]
                 toEntity == IF t # 0 THEN graph.entities[t]
                             ELSE [id |-> RandomUUID(n), name |-> relation.to,
                                   entityType |-> "Concept", observations |-> <<>>]
                 es == IF t # 0 THEN graph.entities ELSE Append(graph.entities, toEntity)
             IN  [graph |-> [entities |-> es,
                             relations |-> Append(graph.relations,
                                [fromId |-> fromEntity.id, toId |-> toEntity.id,
                                 fromName |-> fromEntity.name, toName |-> toEntity.name,
                                 relationType |-> relation.relationType])],
                  threw |-> "", entityId |-> "",
                  drawn |-> IF t # 0 THEN n ELSE n + 1]

\* The mutator of addRelation.
AddRelationMutator(relation, graph, n) ==
    LET f == Resolve(graph, relation.from)
        t == Resolve(graph, relation.to)
    IN  IF f = 0 \/ t = 0
        THEN [graph |-> graph, threw |-> "NOT_FOUND", entityId |-> "", drawn |-> n]
        ELSE LET fromEntity == graph.entities[f]
                 toEntity == graph.entities[t]
             IN  [graph |->
                    IF RelationExists(graph, fromEntity, toEntity, relation.relationType)
                    THEN graph
                    ELSE [graph EXCEPT !.relations = Append(@,
                            [fromId |-> fromEntity.id, toId |-> toEntity.id,
                             fromName |-> fromEntity.name, toName |-> toEntity.name,
                             relationType |-> relation.relationType])],
                  threw |-> "", entityId |-> "", drawn |-> n]

\* The relations of one ingested file: a target that no entity is named after
\* is created as a stub; the relation is appended unless it is there already.
RECURSIVE IngestRelations(_, _, _, _)
IngestRelations(rels, sourceName, graph, n) ==
    IF rels = <<>> THEN [graph |-> graph, drawn |-> n]
    ELSE LET rel == Head(rels)
             t == FindByName(graph, rel.to)
             targetEntity == IF t # 0 THEN graph.entities[t]
                             ELSE [id |-> RandomUUID(n), name |-> rel.to,
                                   entityType |-> "Concept", observations |-> <<>>]
             withTarget == IF t # 0 THEN graph
                           ELSE [graph EXCEPT !.entities = Append(@, targetEntity)]
             f == FindByName(withTarget, sourceName)
             fromEntity == withTarget.entities[f]
             linked ==
                 IF f = 0 THEN withTarget
                 ELSE IF RelationExists(withTarget, fromEntity, targetEntity, rel.type)
                 THEN withTarget
                 ELSE [withTarget EXCEPT !.relations = Append(@,
                         [fromId |-> fromEntity.id, toId |-> targetEntity.id,
                          fromName |-> fromEntity.name, toName |-> targetEntity.name,
                          relationType |-> rel.type])]
         IN  IngestRelations(Tail(rels), sourceName, linked, IF t # 0 THEN n ELSE n + 1)

\* The batch operation as it would be if, like addRelation, it raised
\* NotFoundError for a relation target that no entity is named after.
IngestMutatorStrict(op, graph, n) ==
    LET i == FindByName(graph, op.name)
        existing == graph.entities[i]
        newId == IF op.id # "" THEN op.id ELSE NewId(op.entityType, n)
        upserted ==
            IF i # 0
            THEN [graph EXCEPT !.entities[i] =
                    [existing EXCEPT !.observations =
                        existing.observations \o NewObs(op.observations, existing.observations)]]
            ELSE [graph EXCEPT !.entities = Append(@,
                    [id |-> newId, name |-> op.name, entityType |-> op.entityType,
                     observations |-> op.observations])]
        r == IngestRelations(op.relations, op.name, upserted,
                             IF i = 0 /\ op.id = "" THEN n + 1 ELSE n)
    IN  IF \E k \in 1..Len(op.relations) : FindByName(upserted, op.relations[k].to) = 0
        THEN [graph |-> upserted, threw |-> "NOT_FOUND", entityId |-> "", drawn |-> n]
        ELSE [graph |-> r.graph, threw |-> "", entityId |-> "", drawn |-> r.drawn]

\* One batch operation of IngestManager.ingest (no vector manager): upsert the
\* file's entity, under the file's id when it has one, then add its relations.
IngestMutator(op, graph, n) ==
    LET i == FindByName(graph, op.name)
        existing == graph.entities[i]
        newId == IF op.id # "" THEN op.id ELSE NewId(op.entityType, n)
        upserted ==
            IF i # 0
            THEN [graph EXCEPT !.entities[i] =
                    [existing EXCEPT !.observations =
                        existing.observations \o NewObs(op.observations, existing.observations)]]
            ELSE [graph EXCEPT !.entities = Append(@,
                    [id |-> newId, name |-> op.name, entityType |-> op.entityType,
                     observations |-> op.observations])]
        r == IngestRelations(op.relations, op.name, upserted,
                             IF i = 0 /\ op.id = "" THEN n + 1 ELSE n)
    IN  [graph |-> r.graph, threw |-> "", entityId |-> "", drawn |-> r.drawn]

\* One queued mutation of a batch: an entity upsert, a relation, an ingested
\* file, or a failure.
Mutate(m, graph, n) ==
    IF m.kind = "entity" THEN AddEntityMutator(m, graph, n)
    ELSE IF m.kind = "relation" THEN AddRelationMutator(m, graph, n)
    ELSE IF m.kind = "ingest" THEN IngestMutator(m, graph, n)
    ELSE [graph |-> graph, threw |-> "RAISED", entityId |-> "", drawn |-> n]

\* A mutator that runs queued mutations in order on the one in-memory graph and
\* stops at the first that raises; the graph keeps what the earlier ones did.
RECURSIVE RunBatch(_, _, _)
RunBatch(ms, graph, n) ==
    IF ms = <<>> THEN [graph |-> graph, threw |-> "", entityId |-> "", drawn |-> n]
    ELSE LET r == Mutate(Head(ms), graph, n)
         IN  IF r.threw # "" \/ Tail(ms) = <<>> THEN r
             ELSE RunBatch(Tail(ms), r.graph, r.drawn)

\* ------------------------------------------------------------ BackupManager
BackupPrefix(context) == <<"graph-">> \o context \o <<"-">>

BackupName(context, t) == BackupPrefix(context) \o Timestamp(t) \o <<".jsonl">>

\* files.filter(f => f.startsWith(`graph-${context}-`))
IsBackupOfOwn(f, context) == \E t \in 0..99 : f = BackupName(context, t)
IsBackupOf(f, context) == StartsWith(f, BackupPrefix(context))

\* The backups of a context as pruneBackups and restoreLatest list them.
ListBackups(bk, context) == SortReverse({f \in DOMAIN bk : IsBackupOf(f, context)})

\* pruneBackups as it would be if it deleted nothing.
PruneBackupsNever(bk, context, keep) == bk

\* pruneBackups: delete what follows the first `keep` names of the list.
PruneBackups(bk, context, keep) ==
    LET list == ListBackups(bk, context)
    IN  IF Len(list) > keep
        THEN Unlink(bk, {list[i] : i \in (keep + 1)..Len(list)})
        ELSE bk

\* createSnapshot: nothing when the graph file is absent; otherwise copy it to
\* the backup directory under the current timestamp, then prune.
CreateSnapshot(bk, files, context, t, keep) ==
    IF context \notin DOMAIN files THEN bk
    ELSE PruneBackups(PutFile(bk, BackupName(context, t), files[context]), context, keep)

\* restoreLatest as it would be if it took the last name of the list.
RestoreOldest(bk, files, context) ==
    LET list == ListBackups(bk, context)
    IN  IF Len(list) = 0
        THEN [threw |-> "NOT_FOUND", files |-> files, latest |-> <<>>]
        ELSE [threw |-> "", files |-> PutFile(files, context, bk[list[Len(list)]]),
              latest |-> list[Len(list)]]

\* restoreLatest: NOT_FOUND without a listed backup; otherwise copy the first of
\* the list over the graph file.
RestoreLatest(bk, files, context) ==
    LET list == ListBackups(bk, context)
    IN  IF Len(list) = 0
        THEN [threw |-> "NOT_FOUND", files |-> files, latest |-> <<>>]
        ELSE [threw |-> "", files |-> PutFile(files, context, bk[list[1]]),
              latest |-> list[1]]

\* ------------------------------------------------------------ the processes
Procs == 1..NumProcs

NoCall == [op |-> "", err |-> "", data |-> <<>>]

\* No process has started a call.
ProcInit ==
    /\ pc = [p \in Procs |-> "idle"]
    /\ tries = [p \in Procs |-> 0]
    /\ seen = [p \in Procs |-> ""]
    /\ mem = [p \in Procs |-> EmptyGraph]
    /\ calls = [p \in Procs |-> NoCall]
    /\ alive = Procs

\* No vectors.jsonl in the storage directory and no VectorManager initialised.
VectorInit ==
    /\ vectorFile = <<>>
    /\ vectors = [p \in Procs |-> <<>>]
    /\ isLoaded = [p \in Procs |-> FALSE]
    /\ disk = <<>>

\* ------------------------------------------------ calls of the sequential caller
Call(op, context, arg, err, ret, loaded, mutated) ==
    [op |-> op, ctx |-> context, arg |-> arg, err |-> err, ret |-> ret,
     pre |-> graphFiles, preb |-> backups, loaded |-> loaded, mem |-> mutated,
     prev |-> vectorFile, prem |-> vectors]

\* updateGraph: after the mutator returned, snapshot and write; after it raised,
\* neither.
CommitsAlways(r) == TRUE
Commits(r) == r.threw = ""

\* updateGraph(updaterFn, context) with no other process at work; the updater
\* runs the queued mutations `arg`.
UpdateGraph(op, arg, context) ==
    LET acq == AcquireLockAlone(lockFile, Self, 0)
    IN  IF ~acq.ok
        THEN /\ lockFile' = acq.lock
             /\ UNCHANGED <<graphFiles, backups, uuids>>
             /\ history' = Append(history,
                    Call(op, context, arg, "LOCK_ERROR", "", EmptyGraph, EmptyGraph))
        ELSE LET graph == LoadGraph(graphFiles, context)
                 r == RunBatch(arg, graph, uuids)
             IN  /\ uuids' = r.drawn
                 /\ IF Commits(r)
                    THEN /\ backups' = CreateSnapshot(backups, graphFiles, context,
                                                      now, maxBackups)
                         /\ graphFiles' = PutFile(graphFiles, context, Serialize(r.graph))
                    ELSE UNCHANGED <<graphFiles, backups>>
                 /\ lockFile' = ReleaseLock(acq.lock, Self)
                 /\ history' = Append(history,
                        Call(op, context, arg, r.threw, r.entityId, graph, r.graph))

AddEntity(entity, context) ==
    /\ UpdateGraph("addEntity", <<entity>>, context)
    /\ UNCHANGED <<now, maxBackups, vecVars, procVars>>

AddRelation(relation, context) ==
    /\ UpdateGraph("addRelation", <<relation>>, context)
    /\ UNCHANGED <<now, maxBackups, vecVars, procVars>>

\* A caller of updateGraph that queues several mutations for one transaction.
UpdateBatch(ms, context) ==
    /\ UpdateGraph("batch", ms, context)
    /\ UNCHANGED <<now, maxBackups, vecVars, procVars>>

\* undo as it would be if it removed the snapshot it restored.
UndoConsuming(context) ==
    LET acq == AcquireLockAlone(lockFile, Self, 0)
    IN  /\ IF ~acq.ok
           THEN /\ lockFile' = acq.lock
                /\ UNCHANGED <<graphFiles, backups>>
                /\ history' = Append(history,
                       Call("undo", context, <<>>, "LOCK_ERROR", "", EmptyGraph, EmptyGraph))
           ELSE LET r == RestoreLatest(backups, graphFiles, context)
                IN  /\ graphFiles' = r.files
                    /\ backups' = IF r.threw = "" THEN Unlink(backups, {r.latest})
                                  ELSE backups
                    /\ lockFile' = ReleaseLock(acq.lock, Self)
                    /\ history' = Append(history,
                           Call("undo", context, <<>>, r.threw, "", EmptyGraph, EmptyGraph))
        /\ UNCHANGED <<uuids, now, maxBackups, vecVars, procVars>>

Undo(context) ==
    LET acq == AcquireLockAlone(lockFile, Self, 0)
    IN  /\ IF ~acq.ok
           THEN /\ lockFile' = acq.lock
                /\ UNCHANGED graphFiles
                /\ history' = Append(history,
                       Call("undo", context, <<>>, "LOCK_ERROR", "", EmptyGraph, EmptyGraph))
           ELSE LET r == RestoreLatest(backups, graphFiles, context)
                IN  /\ graphFiles' = r.files
                    /\ lockFile' = ReleaseLock(acq.lock, Self)
                    /\ history' = Append(history,
                           Call("undo", context, <<>>, r.threw, "", EmptyGraph, EmptyGraph))
        /\ UNCHANGED <<backups, uuids, now, maxBackups, vecVars, procVars>>

\* A millisecond passes.
Tick ==
    /\ now < MaxTime
    /\ now' = now + 1
    /\ UNCHANGED <<graphFiles, backups, lockFile, uuids, maxBackups, vecVars, history, procVars>>

\* ------------------------------------------------------------- the inputs
Ent(name, entityType, observations) ==
    [kind |-> "entity", name |-> name, entityType |-> entityType,
     observations |-> observations, from |-> "", to |-> "", relationType |-> ""]

Rel(from, to, relationType) ==
    [kind |-> "relation", name |-> "", entityType |-> "", observations |-> <<>>,
     from |-> from, to |-> to, relationType |-> relationType]

Raise ==
    [kind |-> "raise", name |-> "", entityType |-> "", observations |-> <<>>,
     from |-> "", to |-> "", relationType |-> ""]

\* The ids a caller can know of: those of the entities in the context's file.
KnownIds(context) ==
    LET es == LoadGraph(graphFiles, context).entities
    IN  {es[i].id : i \in 1..Len(es)}

\* The state of the storage directory after addEntity(first) and then
\* addEntity(second) on a fresh context, both at time 0.
StoreAfterTwo(context, first, second) ==
    LET r1 == AddEntityMutator(first, EmptyGraph, 0)
        f1 == PutFile(NoFiles, context, Serialize(r1.graph))
        r2 == AddEntityMutator(second, LoadGraph(f1, context), r1.drawn)
    IN  [files |-> PutFile(f1, context, Serialize(r2.graph)),
         backups |-> PutFile(NoFiles, BackupName(context, 0), f1[context]),
         uuids |-> r2.drawn]

FreshStore == [files |-> NoFiles, backups |-> NoFiles, uuids |-> 0]

\* ----------------------------------------------- the sequential specification
\* One caller, the contexts "a" and "a-b", on a fresh directory or on one where
\* "a-b" was written twice before.
SeqContexts == {CtxA, CtxAB}

Redis1 == Ent("Redis", "Database", <<"Cache">>)
Redis2 == Ent("Redis", "", <<"KV-Store">>)
Caching == Ent("Caching", "Concept", <<>>)

\* options.maxBackups as the tests of retention construct the BackupManager.
Retentions == {1, 2}

SeqEntities == {Redis1, Caching}
SeqRelations == {Rel("Redis", "Caching", "supports"), Rel("Caching", "Redis", "supports")}
SeqBatches ==
    {<<Caching, Raise>>, <<Caching, Rel("Redis", "Caching", "supports")>>,
     <<Redis1, Rel("Caching", "Redis", "supports")>>}

SeqInit ==
    /\ \E s \in {FreshStore, StoreAfterTwo(CtxAB, Redis1, Redis2)} :
          /\ graphFiles = s.files
          /\ backups = s.backups
          /\ uuids = s.uuids
    /\ lockFile = NoLock
    /\ now = 0
    /\ maxBackups \in Retentions
    /\ history = <<>>
    /\ ProcInit
    /\ VectorInit

SeqAddEntity ==
    /\ Len(history) < MaxOps
    /\ \E c \in SeqContexts, e \in SeqEntities : AddEntity(e, c)

SeqAddRelation ==
    /\ Len(history) < MaxOps
    /\ \E r \in SeqRelations : AddRelation(r, CtxA)

SeqBatch ==
    /\ Len(history) < MaxOps
    /\ \E ms \in SeqBatches : UpdateBatch(ms, CtxA)

SeqUndo ==
    /\ Len(history) < MaxOps
    /\ \E c \in SeqContexts : Undo(c)

SeqTick == Len(history) < MaxOps /\ Tick

SeqNext == SeqAddEntity \/ SeqAddRelation \/ SeqBatch \/ SeqUndo \/ SeqTick

SeqSpec == SeqInit /\ [][SeqNext]_vars

\* The last completed call and the one before it.
Last == history[Len(history)]
Prev == history[Len(history) - 1]

\* The content of a context's graph file: <<lines>>, or <<>> when it is absent.
FileOf(files, context) == IF context \in DOMAIN files THEN <<files[context]>> ELSE <<>>

IsWrite(call) == call.op \in {"addEntity", "addRelation", "batch"}

\* What the call's mutator does on the graph the call loaded, recomputed from
\* the call's arguments and the files as they were before it.
MutatorOf(call) == RunBatch(call.arg, LoadGraph(call.pre, call.ctx), 0)

\* ------------------------------------------------------------------ C3
\* C3: updateGraph is all-or-nothing: when the mutator raises, also after it
\* changed the in-memory graph, the graph files and the backup directory are
\* as before the call and the mutator's error is the call's outcome.
C3_AllOrNothing ==
    (Len(history) > 0 /\ IsWrite(Last) /\ MutatorOf(Last).threw # "")
        => /\ graphFiles = Last.pre
           /\ backups = Last.preb
           /\ Last.err = MutatorOf(Last).threw

\* A batch raised after an earlier queued mutation had changed the in-memory graph.
C3_Witness ==
    /\ Len(history) > 0
    /\ Last.op = "batch"
    /\ Last.err # ""
    /\ Last.mem # Last.loaded
    /\ Last.ctx \in DOMAIN Last.pre

\* ------------------------------------------------------------------ C4
\* C4: after a successful write transaction T on a context, an immediately
\* following undo leaves the context's graph file with the content it had
\* before T (absent, when T created it).
C4_UndoRevertsLastWrite ==
    (/\ Len(history) > 1
     /\ Last.op = "undo"
     /\ IsWrite(Prev) /\ Prev.err = ""
     /\ Prev.ctx = Last.ctx)
        => FileOf(graphFiles, Last.ctx) = FileOf(Prev.pre, Last.ctx)

\* ------------------------------------------------------------------ C5
\* The content of the snapshot of `context` created last by the first k calls:
\* <<lines>>, or <<>> when none was ever created. A committed write on an
\* existing graph file creates the snapshot of that file.
RECURSIVE LatestSnapshot(_, _)
LatestSnapshot(context, k) ==
    IF k = 0
    THEN LET own == {f \in DOMAIN history[1].preb : IsBackupOfOwn(f, context)}
         IN  IF own = {} THEN <<>> ELSE <<history[1].preb[SortReverse(own)[1]]>>
    ELSE IF /\ IsWrite(history[k]) /\ history[k].err = ""
            /\ history[k].ctx = context
            /\ context \in DOMAIN history[k].pre
         THEN <<history[k].pre[context]>>
         ELSE LatestSnapshot(context, k - 1)

\* C5: after a successful undo(context) the context's graph file is
\* byte-identical to the most recently created snapshot of that context.
C5_UndoInstallsLatestSnapshot ==
    (Len(history) > 0 /\ Last.op = "undo" /\ Last.err = "")
        => FileOf(graphFiles, Last.ctx) = LatestSnapshot(Last.ctx, Len(history) - 1)
           /\ LatestSnapshot(Last.ctx, Len(history) - 1) # <<>>

\* ------------------------------------------------------------------ C7
\* C7: undo on a context that has no backup snapshot fails with NOT_FOUND,
\* leaves the graph files and the backup directory unchanged, and releases the
\* lock.
C7_UndoWithoutSnapshot ==
    (/\ Len(history) > 0
     /\ Last.op = "undo"
     /\ ~\E f \in DOMAIN Last.preb : IsBackupOfOwn(f, Last.ctx))
        => /\ Last.err = "NOT_FOUND"
           /\ graphFiles = Last.pre
           /\ backups = Last.preb
           /\ ~lockFile.exists

\* --------------------------------------------------- the graph specification
\* One caller and the default context, on a fresh directory or on one that
\* holds Redis and Caching, with observation lists that repeat an element and
\* endpoints named by name, by id, or by neither.
DefaultMaxBackups == 5

ObsLists ==
    {<<>>} \cup {<<a>> : a \in {"Cache", "KV-Store"}}
           \cup {<<a, b>> : a \in {"Cache", "KV-Store"}, b \in {"Cache", "KV-Store"}}

GraphEntities ==
    {Ent("Redis", ty, obs) : ty \in {"Database", ""}, obs \in ObsLists}
        \cup {Caching, Ent(NewId("Database", 0), "", <<>>)}

GraphRefs == {"Redis", "Caching", "Ghost"} \cup KnownIds(DefaultContext)

\* The calls of this specification: one fewer than of the sequential one.
GraphOps == MaxOps - 1

GraphInit ==
    /\ \E s \in {FreshStore, StoreAfterTwo(DefaultContext, Redis1, Caching)} :
          /\ graphFiles = s.files
          /\ backups = s.backups
          /\ uuids = s.uuids
    /\ lockFile = NoLock
    /\ now = 0
    /\ maxBackups = DefaultMaxBackups
    /\ history = <<>>
    /\ ProcInit
    /\ VectorInit

GraphAddEntity ==
    /\ Len(history) < GraphOps
    /\ \E e \in GraphEntities : AddEntity(e, DefaultContext)

GraphAddRelation ==
    /\ Len(history) < GraphOps
    /\ \E f \in GraphRefs, t \in GraphRefs :
          AddRelation(Rel(f, t, "supports"), DefaultContext)

GraphUndo == Len(history) < GraphOps /\ Undo(DefaultContext)

GraphTick == Len(history) < GraphOps /\ Tick

GraphNext == GraphAddEntity \/ GraphAddRelation \/ GraphUndo \/ GraphTick

GraphSpec == GraphInit /\ [][GraphNext]_vars

\* ------------------------------------------------------------------ C8
\* The elements of a list in first-seen order, each once.
RECURSIVE Dedup(_)
Dedup(s) ==
    IF s = <<>> THEN <<>>
    ELSE LET d == Dedup(SubSeq(s, 1, Len(s) - 1))
         IN  IF Includes(d, s[Len(s)]) THEN d ELSE Append(d, s[Len(s)])

NamedIn(graph, name) == {i \in 1..Len(graph.entities) : graph.entities[i].name = name}

TwiceSameName ==
    /\ Len(history) > 1
    /\ Last.op = "addEntity" /\ Prev.op = "addEntity"
    /\ Last.err = "" /\ Prev.err = ""
    /\ Last.ctx = Prev.ctx
    /\ Last.arg[1].name = Prev.arg[1].name

\* C8: adding an entity twice with the same name yields one stored record,
\* both calls return the same id, and the stored observations are what the
\* record held before, then the first and then the second call's list, each
\* element once in first-seen order.
C8_UpsertIsUnion ==
    TwiceSameName =>
        LET name == Last.arg[1].name
            before == LoadGraph(Prev.pre, Last.ctx)
            old == IF NamedIn(before, name) = {} THEN <<>>
                   ELSE before.entities[CHOOSE i \in NamedIn(before, name) : TRUE].observations
            g == LoadGraph(graphFiles, Last.ctx)
        IN  /\ Cardinality(NamedIn(g, name)) = 1
            /\ Last.ret = Prev.ret
            /\ \A i \in NamedIn(g, name) :
                  g.entities[i].observations =
                      Dedup(old \o Prev.arg[1].observations \o Last.arg[1].observations)

\* ------------------------------------------------------------------ C9
SameKey(r, fromEntity, toEntity, relationType) ==
    /\ r.fromId = fromEntity.id
    /\ r.toId = toEntity.id
    /\ r.relationType = relationType

\* The entities the call's endpoints resolved to, in the graph it loaded.
FromOf(call) == call.loaded.entities[Resolve(call.loaded, call.arg[1].from)]
ToOf(call) == call.loaded.entities[Resolve(call.loaded, call.arg[1].to)]

\* C9: after a successful addRelation, a first or a repeated one, with the
\* endpoints given by name or by id, the graph file holds exactly one relation
\* with the (fromId, toId, relationType) of the call.
C9_RelationStoredOnce ==
    (Len(history) > 0 /\ Last.op = "addRelation" /\ Last.err = "")
        => LET g == LoadGraph(graphFiles, Last.ctx)
           IN  Cardinality({k \in 1..Len(g.relations) :
                   SameKey(g.relations[k], FromOf(Last), ToOf(Last),
                           Last.arg[1].relationType)}) = 1

\* The same triple was added twice in a row, by name and then by id.
C9_Witness ==
    /\ Len(history) > 1
    /\ Last.op = "addRelation" /\ Prev.op = "addRelation"
    /\ Last.err = "" /\ Prev.err = ""
    /\ FromOf(Last) = FromOf(Prev) /\ ToOf(Last) = ToOf(Prev)
    /\ Prev.arg[1].from = FromOf(Prev).name /\ Prev.arg[1].to = ToOf(Prev).name
    /\ Last.arg[1].from = FromOf(Last).id /\ Last.arg[1].to = ToOf(Last).name
    /\ FromOf(Last) # ToOf(Last)

\* ------------------------------------------------------------------ C10
Unresolved(graph, ref) ==
    \A i \in 1..Len(graph.entities) :
        graph.entities[i].name # ref /\ graph.entities[i].id # ref

\* C10: addRelation with an endpoint that is neither the name nor the id of an
\* entity fails with NOT_FOUND and leaves the graph files (so also the stored
\* entities) and the backup directory as they were.
C10_MissingEndpoint ==
    (/\ Len(history) > 0
     /\ Last.op = "addRelation"
     /\ \/ Unresolved(LoadGraph(Last.pre, Last.ctx), Last.arg[1].from)
        \/ Unresolved(LoadGraph(Last.pre, Last.ctx), Last.arg[1].to))
        => /\ Last.err = "NOT_FOUND"
           /\ graphFiles = Last.pre
           /\ backups = Last.preb

\* The source exists, by its id, and the target does not; the graph file exists.
C10_Witness ==
    /\ Len(history) > 0
    /\ Last.op = "addRelation"
    /\ Last.ctx \in DOMAIN Last.pre
    /\ Last.arg[1].from \in {Last.loaded.entities[i].id : i \in 1..Len(Last.loaded.entities)}
    /\ Unresolved(Last.loaded, Last.arg[1].to)
    /\ Last.err = "NOT_FOUND"

\* ------------------------------------------------ the scenario specification
\* One caller on a fresh directory, the default context and retention limit,
\* and the calls of the scenario in any order, as many as the scenario has.
Supports == Rel("Redis", "Caching", "supports")

Scenario ==
    <<[op |-> "addEntity", arg |-> <<Redis1>>],
      [op |-> "addEntity", arg |-> <<Redis2>>],
      [op |-> "addRelation", arg |-> <<Supports>>],
      [op |-> "addEntity", arg |-> <<Caching>>],
      [op |-> "addRelation", arg |-> <<Supports>>],
      [op |-> "undo", arg |-> <<>>]>>

ScenarioInit ==
    /\ graphFiles = NoFiles
    /\ backups = NoFiles
    /\ uuids = 0
    /\ lockFile = NoLock
    /\ now = 0
    /\ maxBackups = DefaultMaxBackups
    /\ history = <<>>
    /\ ProcInit
    /\ VectorInit

ScenarioAddEntity ==
    /\ Len(history) < Len(Scenario)
    /\ \E e \in {Redis1, Redis2, Caching} : AddEntity(e, DefaultContext)

ScenarioAddRelation ==
    /\ Len(history) < Len(Scenario)
    /\ AddRelation(Supports, DefaultContext)

ScenarioUndo == Len(history) < Len(Scenario) /\ Undo(DefaultContext)

ScenarioTick == Len(history) < Len(Scenario) /\ Tick

ScenarioNext == ScenarioAddEntity \/ ScenarioAddRelation \/ ScenarioUndo \/ ScenarioTick

ScenarioSpec == ScenarioInit /\ [][ScenarioNext]_vars

\* ------------------------------------------------------------------ C6
\* The calls made so far are those of the scenario, in its order.
ScenarioDone ==
    /\ Len(history) = Len(Scenario)
    /\ \A k \in 1..Len(Scenario) :
          history[k].op = Scenario[k].op /\ history[k].arg = Scenario[k].arg

NameAndObservations(graph) ==
    [i \in 1..Len(graph.entities) |->
        <<graph.entities[i].name, graph.entities[i].observations>>]

\* C6 as the spec states it: after the scenario the graph holds only Redis
\* with observations [Cache], and no relation.
C6_ScenarioAsStated ==
    ScenarioDone =>
        LET g == LoadGraph(graphFiles, DefaultContext)
        IN  /\ NameAndObservations(g) = <<<<"Redis", <<"Cache">>>>>>
            /\ g.relations = <<>>

\* C6 as amended: in the scenario the first addRelation fails with NOT_FOUND
\* and the second succeeds, and the undo restores the snapshot taken before
\* the last write, the second addRelation: the graph holds Redis with
\* observations [Cache, KV-Store] and Caching, and no relation.
C6_ScenarioUndoOneStep ==
    ScenarioDone =>
        LET g == LoadGraph(graphFiles, DefaultContext)
        IN  /\ history[3].err = "NOT_FOUND"
            /\ \A k \in {1, 2, 4, 5, 6} : history[k].err = ""
            /\ history[2].ret = history[1].ret
            /\ NameAndObservations(g) =
                  <<<<"Redis", <<"Cache", "KV-Store">>>>, <<"Caching", <<>>>>>>
            /\ g.relations = <<>>

\* The scenario ran, with a millisecond passing during it.
C6_Witness == ScenarioDone /\ now > 0

\* ------------------------------------------- the concurrent specification
\* NumProcs processes on one storage directory whose default context was
\* written twice before; each makes one call on the default context, addEntity
\* of an entity of its own, undo or getAll, one file-system call at a time and
\* interleaved with the others. A process may
\* crash at any step, and a marker may grow older than lockTimeoutMs.
EntityOf(self) == Ent("E" \o ToString(self), "", <<>>)

Marker(self, content) ==
    [exists |-> TRUE, creator |-> self, content |-> content, old |-> FALSE]

\* The loop counter after `continue` or after the sleep.
NextTry(self) == tries' = [tries EXCEPT ![self] = @ + 1]

Goto(self, label) == pc' = [pc EXCEPT ![self] = label]

Finish(self, err) ==
    /\ Goto(self, "done")
    /\ calls' = [calls EXCEPT ![self].err = err]

\* A process calls addEntity (through updateGraph), undo or getAll; getAll
\* goes to loadGraph without the lock.
Start(self) ==
    /\ pc[self] = "idle"
    /\ \E op \in {"addEntity", "undo", "getAll"} :
          /\ calls' = [calls EXCEPT ![self] = [op |-> op, err |-> "pending", data |-> <<>>]]
          /\ Goto(self, IF op = "getAll" THEN "readGraph" ELSE "create")
    /\ UNCHANGED <<graphFiles, backups, lockFile, now, uuids, maxBackups, vecVars, history,
                   tries, seen, mem, alive>>

\* acquireLock as it would be if it tried again after the last retry.
TryCreateUnbounded(self) ==
    /\ pc[self] = "create"
    /\ IF ~lockFile.exists
       THEN lockFile' = Marker(self, "") /\ Goto(self, "writePid")
       ELSE Goto(self, "read") /\ UNCHANGED lockFile
    /\ UNCHANGED <<graphFiles, backups, now, uuids, maxBackups, vecVars, history,
                   tries, seen, mem, calls, alive>>

\* acquireLock, loop head and fs.writeFile(lockFile, pid, {flag: 'wx'}): the
\* exclusive create. The marker is created empty; the pid is written next.
TryCreate(self) ==
    /\ pc[self] = "create"
    /\ IF tries[self] >= lockRetries
       THEN /\ Finish(self, "LOCK_ERROR")
            /\ UNCHANGED lockFile
       ELSE IF ~lockFile.exists
       THEN /\ lockFile' = Marker(self, "")
            /\ Goto(self, "writePid")
            /\ UNCHANGED calls
       ELSE /\ Goto(self, "read")
            /\ UNCHANGED <<lockFile, calls>>
    /\ UNCHANGED <<graphFiles, backups, now, uuids, maxBackups, vecVars, history,
                   tries, seen, mem, alive>>

\* The write of fs.writeFile: the pid goes to the file this process created,
\* which is the marker only while nobody has unlinked it. acquireLock returns
\* true either way.
WritePid(self) ==
    /\ pc[self] = "writePid"
    /\ lockFile' = IF lockFile.exists /\ lockFile.creator = self
                   THEN Marker(self, ToString(self))
                   ELSE lockFile
    /\ Goto(self, IF calls[self].op = "undo" THEN "restore" ELSE "load")
    /\ UNCHANGED <<graphFiles, backups, now, uuids, maxBackups, vecVars, history,
                   tries, seen, mem, calls, alive>>

\* EEXIST: fs.readFile(lockFile); a marker that disappeared means `continue`.
ReadLock(self) ==
    /\ pc[self] = "read"
    /\ IF lockFile.exists
       THEN /\ seen' = [seen EXCEPT ![self] = lockFile.content]
            /\ Goto(self, "probe")
            /\ UNCHANGED tries
       ELSE /\ NextTry(self)
            /\ Goto(self, "create")
            /\ UNCHANGED seen
    /\ UNCHANGED <<graphFiles, backups, lockFile, now, uuids, maxBackups, vecVars, history,
                   mem, calls, alive>>

\* parseInt and process.kill(lockPid, 0).
ProbeHolder(self) ==
    /\ pc[self] = "probe"
    /\ LET lockPid == ParseInt(seen[self], Procs)
           processAlive == lockPid # NaN /\ lockPid \in alive
       IN  Goto(self, IF processAlive THEN "stat" ELSE "unlinkStale")
    /\ UNCHANGED <<graphFiles, backups, lockFile, now, uuids, maxBackups, vecVars, history,
                   tries, seen, mem, calls, alive>>

\* fs.unlink(lockFile).catch(() => {}); continue, for a marker taken for
\* stale or for timed out: it removes whatever marker is there now.
UnlinkMarker(self) ==
    /\ pc[self] \in {"unlinkStale", "unlinkOld"}
    /\ lockFile' = NoLock
    /\ NextTry(self)
    /\ Goto(self, "create")
    /\ UNCHANGED <<graphFiles, backups, now, uuids, maxBackups, vecVars, history,
                   seen, mem, calls, alive>>

\* fs.stat(lockFile) and the timeout test; otherwise the sleep and the next
\* round.
StatLock(self) ==
    /\ pc[self] = "stat"
    /\ Goto(self, IF lockFile.exists /\ lockFile.old THEN "unlinkOld" ELSE "create")
    /\ IF lockFile.exists /\ lockFile.old THEN UNCHANGED tries ELSE NextTry(self)
    /\ UNCHANGED <<graphFiles, backups, lockFile, now, uuids, maxBackups, vecVars, history,
                   seen, mem, calls, alive>>

\* updateGraph: loadGraph and the mutator, which runs on the in-memory graph;
\* `data` keeps the file content that loadGraph read.
LoadAndMutate(self) ==
    /\ pc[self] = "load"
    /\ LET r == RunBatch(<<EntityOf(self)>>, LoadGraph(graphFiles, DefaultContext), uuids)
           read == FileOf(graphFiles, DefaultContext)
       IN  /\ mem' = [mem EXCEPT ![self] = r.graph]
           /\ uuids' = r.drawn
           /\ IF Commits(r)
              THEN /\ Goto(self, "snapshot")
                   /\ calls' = [calls EXCEPT ![self].data = read]
              ELSE /\ Goto(self, "release")
                   /\ calls' = [calls EXCEPT ![self].err = r.threw, ![self].data = read]
    /\ UNCHANGED <<graphFiles, backups, lockFile, now, maxBackups, vecVars, history,
                   tries, seen, alive>>

\* updateGraph: backupMgr.createSnapshot(ctx).
Snapshot(self) ==
    /\ pc[self] = "snapshot"
    /\ backups' = CreateSnapshot(backups, graphFiles, DefaultContext, now, maxBackups)
    /\ Goto(self, "truncate")
    /\ UNCHANGED <<graphFiles, lockFile, now, uuids, maxBackups, vecVars, history,
                   tries, seen, mem, calls, alive>>

\* updateGraph: fs.writeFile(filePath, ...) opens the file, which empties it.
Truncate(self) ==
    /\ pc[self] = "truncate"
    /\ graphFiles' = PutFile(graphFiles, DefaultContext, <<>>)
    /\ Goto(self, "write")
    /\ UNCHANGED <<backups, lockFile, now, uuids, maxBackups, vecVars, history,
                   tries, seen, mem, calls, alive>>

\* updateGraph: fs.writeFile(filePath, ...) writes the lines.
WriteGraph(self) ==
    /\ pc[self] = "write"
    /\ graphFiles' = PutFile(graphFiles, DefaultContext, Serialize(mem[self]))
    /\ Goto(self, "release")
    /\ calls' = [calls EXCEPT ![self].err = ""]
    /\ UNCHANGED <<backups, lockFile, now, uuids, maxBackups, vecVars, history,
                   tries, seen, mem, alive>>

\* undo: backupMgr.restoreLatest(ctx) up to the start of fs.copyFile, which
\* opens the snapshot and opens the graph file, emptying it.
Restore(self) ==
    /\ pc[self] = "restore"
    /\ LET r == RestoreLatest(backups, graphFiles, DefaultContext)
       IN  IF r.threw # ""
           THEN /\ calls' = [calls EXCEPT ![self].err = r.threw]
                /\ Goto(self, "release")
                /\ UNCHANGED graphFiles
           ELSE /\ calls' = [calls EXCEPT ![self].data = r.files[DefaultContext]]
                /\ Goto(self, "copy")
                /\ graphFiles' = PutFile(graphFiles, DefaultContext, <<>>)
    /\ UNCHANGED <<backups, lockFile, now, uuids, maxBackups, vecVars, history,
                   tries, seen, mem, alive>>

\* undo: fs.copyFile writes the snapshot's content to the graph file.
CopyBackup(self) ==
    /\ pc[self] = "copy"
    /\ graphFiles' = PutFile(graphFiles, DefaultContext, calls[self].data)
    /\ calls' = [calls EXCEPT ![self].err = ""]
    /\ Goto(self, "release")
    /\ UNCHANGED <<backups, lockFile, now, uuids, maxBackups, vecVars, history,
                   tries, seen, mem, alive>>

\* getAll: loadGraph(context), one readFile of the graph file.
ReadGraph(self) ==
    /\ pc[self] = "readGraph"
    /\ mem' = [mem EXCEPT ![self] = LoadGraph(graphFiles, DefaultContext)]
    /\ Finish(self, "")
    /\ UNCHANGED <<graphFiles, backups, lockFile, now, uuids, maxBackups, vecVars, history,
                   tries, seen, alive>>

\* releaseLock as it would be if the call returned without it.
ReleaseSkipped(self) ==
    /\ pc[self] = "release"
    /\ Goto(self, "done")
    /\ UNCHANGED <<graphFiles, backups, lockFile, now, uuids, maxBackups, vecVars, history,
                   tries, seen, mem, calls, alive>>

\* releaseLock: fs.readFile(lockFile) and the pid test.
ReleaseRead(self) ==
    /\ pc[self] = "release"
    /\ Goto(self, IF lockFile.exists /\ lockFile.content = ToString(self)
                  THEN "releaseUnlink" ELSE "done")
    /\ UNCHANGED <<graphFiles, backups, lockFile, now, uuids, maxBackups, vecVars, history,
                   tries, seen, mem, calls, alive>>

\* releaseLock: fs.unlink(lockFile), of whatever marker is there now.
ReleaseUnlink(self) ==
    /\ pc[self] = "releaseUnlink"
    /\ lockFile' = NoLock
    /\ Goto(self, "done")
    /\ UNCHANGED <<graphFiles, backups, now, uuids, maxBackups, vecVars, history,
                   tries, seen, mem, calls, alive>>

\* loadGraph, the mutator, createSnapshot, writeFile or restoreLatest raises
\* (StorageError or the mutator's error): control goes to `finally`.
Fail(self) ==
    /\ pc[self] \in {"load", "snapshot", "truncate", "write", "restore", "copy"}
    /\ calls' = [calls EXCEPT ![self].err = "STORAGE_ERROR"]
    /\ Goto(self, "release")
    /\ UNCHANGED <<graphFiles, backups, lockFile, now, uuids, maxBackups, vecVars, history,
                   tries, seen, mem, alive>>

\* A process dies in the middle of its call.
Crash(self) ==
    /\ pc[self] \notin {"idle", "done", "crashed"}
    /\ alive' = alive \ {self}
    /\ Goto(self, "crashed")
    /\ UNCHANGED <<graphFiles, backups, lockFile, now, uuids, maxBackups, vecVars, history,
                   tries, seen, mem, calls>>

\* More than lockTimeoutMs pass since the marker was last written.
Age ==
    /\ lockFile.exists /\ ~lockFile.old
    /\ lockFile' = [lockFile EXCEPT !.old = TRUE]
    /\ UNCHANGED <<graphFiles, backups, now, uuids, maxBackups, vecVars, history, procVars>>

InitialStore == StoreAfterTwo(DefaultContext, Redis1, Caching)

Init ==
    /\ graphFiles = InitialStore.files
    /\ backups = InitialStore.backups
    /\ uuids = InitialStore.uuids
    /\ lockFile = NoLock
    /\ now = 0
    /\ maxBackups = DefaultMaxBackups
    /\ history = <<>>
    /\ ProcInit
    /\ VectorInit

Next ==
    \/ \E self \in Procs :
          \/ Start(self) \/ TryCreate(self) \/ WritePid(self) \/ ReadLock(self)
          \/ ProbeHolder(self) \/ UnlinkMarker(self) \/ StatLock(self)
          \/ LoadAndMutate(self) \/ Snapshot(self) \/ Truncate(self)
          \/ WriteGraph(self) \/ Restore(self) \/ CopyBackup(self) \/ ReadGraph(self)
          \/ ReleaseRead(self) \/ ReleaseUnlink(self) \/ Fail(self) \/ Crash(self)
    \/ Age
    \/ Tick

Spec == Init /\ [][Next]_vars

\* ------------------------------------------------------------------ C1
\* Between a successful acquireLock and its releaseLock: at the load, the
\* mutator, the snapshot, the graph-file write or the restore.
Holding(self) ==
    pc[self] \in {"load", "snapshot", "truncate", "write", "restore", "copy"}

\* C1: at most one process at a time is between a successful acquireLock and
\* its releaseLock.
C1_MutualExclusion ==
    \A p \in Procs, q \in Procs : (Holding(p) /\ Holding(q)) => p = q

\* ------------------------------------------------------------------ C2
\* C2: when all processes called addEntity, each with its own name, and all
\* calls returned without error, the persisted graph holds all the entities.
C2_NoLostUpdate ==
    (\A p \in Procs : pc[p] = "done" /\ calls[p].op = "addEntity" /\ calls[p].err = "")
        => \A p \in Procs :
              FindByName(LoadGraph(graphFiles, DefaultContext), EntityOf(p).name) # 0

\* ------------------------------------------------------------------ C11
\* The graphs a getAll may return: the graph before any transaction and the
\* graph each transaction of another process puts in place (the mutated
\* graph of an addEntity, the snapshot an undo installs).
CompleteGraphs(reader) ==
    {LoadGraph(InitialStore.files, DefaultContext)}
    \cup {mem[w] : w \in {p \in Procs \ {reader} :
                              /\ calls[p].op = "addEntity"
                              /\ \/ pc[p] \in {"snapshot", "truncate", "write"}
                                 \/ calls[p].err = ""}}
    \cup {LoadGraph(InitialStore.backups, f) : f \in DOMAIN InitialStore.backups}
    \cup {LoadGraph(backups, f) : f \in DOMAIN backups}

\* C11: a getAll that runs concurrently with a write transaction or an undo
\* returns the complete graph before or after the transaction, never an empty
\* or partially written one.
C11_ReadSeesCompleteGraph ==
    \A r \in Procs :
        (pc[r] = "done" /\ calls[r].op = "getAll") => mem[r] \in CompleteGraphs(r)

\* ------------------------------------------------------------------ C12
\* The snapshots of a context proper: its own names, not those of a context
\* whose name extends it.
OwnBackups(bk, context) == {f \in DOMAIN bk : IsBackupOfOwn(f, context)}

\* C12: contexts are independent, also when one name is a hyphen-extended
\* prefix of the other: a call on context A leaves every snapshot of another
\* context B in place and unchanged, and a successful undo(A) installs the
\* content of one of A's own snapshots.
C12_ContextsIndependent ==
    Len(history) > 0 =>
        /\ \A B \in SeqContexts \ {Last.ctx} :
              \A f \in OwnBackups(Last.preb, B) :
                  f \in DOMAIN backups /\ backups[f] = Last.preb[f]
        /\ (Last.op = "undo" /\ Last.err = "")
              => \E f \in OwnBackups(Last.preb, Last.ctx) :
                    FileOf(graphFiles, Last.ctx) = <<Last.preb[f]>>

\* ------------------------------------------------------------------ C13
\* C13: the unlink of releaseLock removes only a marker that the releasing
\* process created itself, in every interleaving with other processes' steps.
C13_ReleaseOnlyOwnMarker ==
    [][\A p \in Procs :
          (pc[p] = "releaseUnlink" /\ pc'[p] = "done" /\ lockFile.exists)
              => lockFile.creator = p]_vars

OwnsMarker(self) ==
    lockFile.exists /\ lockFile.creator = self /\ lockFile.content = ToString(self)

\* C15: when a transaction takes its snapshot, it holds the lock, it has not
\* written the graph file yet, and the snapshot's content is the content of
\* the graph file that this transaction loaded.
C15_SnapshotOfLoadedContent ==
    [][\A p \in Procs :
          (pc[p] = "snapshot" /\ pc'[p] = "truncate")
              => /\ OwnsMarker(p)
                 /\ FileOf(backups', BackupName(DefaultContext, now)) = calls[p].data]_vars

\* ------------------------------------------------------------------ C16
\* C16: acquireLock makes at most lockRetries creation attempts and then
\* reports failure; the call then ends with LOCK_ERROR, having loaded,
\* snapshotted, written and restored nothing and having created no marker.
C16_BoundedAcquire ==
    \A p \in Procs :
        /\ tries[p] <= lockRetries
        /\ tries[p] = lockRetries => pc[p] \in {"create", "done", "crashed"}
        /\ (pc[p] = "done" /\ tries[p] = lockRetries) => calls[p].err = "LOCK_ERROR"
        /\ calls[p].err = "LOCK_ERROR"
              => /\ pc[p] = "done"
                 /\ mem[p] = EmptyGraph /\ calls[p].data = <<>>
                 /\ ~(lockFile.exists /\ lockFile.creator = p)

\* A call gave up after lockRetries attempts while another process, alive,
\* held the lock.
C16_Witness ==
    \E p \in Procs, q \in Procs :
        /\ calls[p].err = "LOCK_ERROR" /\ tries[p] = lockRetries
        /\ q # p /\ OwnsMarker(q) /\ q \in alive

\* ------------------------------------------------------------------ C17
\* The call raised inside `try`, after it had acquired the lock.
Failed(self) == calls[self].err \notin {"", "pending", "LOCK_ERROR"}

\* C17: no completed updateGraph or undo leaves the marker it created behind,
\* whether it succeeded or a load, the mutator, a snapshot, a write or a
\* restore raised.
C17_MarkerReleased ==
    \A p \in Procs :
        pc[p] = "done" => ~(lockFile.exists /\ lockFile.creator = p)

\* A call that raised after acquiring the lock has completed, and so has
\* one that succeeded.
C17_Witness ==
    \E p \in Procs, q \in Procs :
        /\ pc[p] = "done" /\ Failed(p)
        /\ pc[q] = "done" /\ calls[q].op \in {"addEntity", "undo"} /\ calls[q].err = ""

\* ------------------------------------------- the public operations' validation
\* JavaScript values of the arguments: strings, arrays, undefined, a number.
Str(s) == [t |-> "string", s |-> s]
Arr(a) == [t |-> "array", a |-> a]
Undefined == [t |-> "undefined"]
Num == [t |-> "number"]

\* A name of 501 characters.
LongName == "x...x"

\* String.prototype.trim and .length on the strings of the inputs.
Trim(s) == IF s = " " THEN "" ELSE s

Length(s) ==
    CASE s = "" -> 0
      [] s = " " -> 1
      [] s = "Redis" -> 5
      [] s = "redis" -> 5
      [] s = "Caching" -> 7
      [] s = "supports" -> 8
      [] s = LongName -> 501

Returned(value) == [threw |-> "", value |-> value]
Thrown(code) == [threw |-> code, value |-> ""]

\* requireString: a string that is not empty after trim, or ValidationError.
RequireString(value) ==
    IF value.t # "string" THEN Thrown("VALIDATION_ERROR")
    ELSE IF Trim(value.s) = "" THEN Thrown("VALIDATION_ERROR")
    ELSE Returned(Trim(value.s))

\* sanitizeString: requireString and the length limit.
SanitizeString(value, maxLength) ==
    LET str == RequireString(value)
    IN  IF str.threw # "" THEN str
        ELSE IF Length(str.value) > maxLength THEN Thrown("VALIDATION_ERROR")
        ELSE str

\* validateObservations: [] for undefined, the array itself, or ValidationError.
ValidateObservations(value) ==
    IF value.t = "undefined" THEN Returned(<<>>)
    ELSE IF value.t # "array" THEN Thrown("VALIDATION_ERROR")
    ELSE Returned(value.a)

\* The characters that /[^a-zA-Z0-9-_]/g leaves in place.
ContextChar(c) ==
    \/ c \in {"a", "b", "d", "e", "f", "l", "t", "u", "-", "_"}
    \/ \E i \in 1..Len(Digits) : c = Digits[i]

\* validateContext as it would be if it took every value for 'default'.
ValidateContextLax(context) == Returned(DefaultContext)

\* validateContext: 'default' for a value that is not a string and for the
\* empty string; ValidationError when a character had to be removed.
ValidateContext(context) ==
    IF context.t # "string" THEN Returned(DefaultContext)
    ELSE LET cleaned == SelectSeq(context.s, ContextChar)
         IN  IF cleaned # context.s THEN Thrown("VALIDATION_ERROR")
             ELSE IF cleaned = <<>> THEN Returned(DefaultContext)
             ELSE Returned(cleaned)

\* The first error of a list of validation results, "" when there is none.
FirstThrown(results) ==
    LET i == First({j \in 1..Len(results) : results[j].threw # ""})
    IN  IF i = 0 THEN "" ELSE results[i].threw

\* The call raised before updateGraph, undo or loadGraph did anything.
Rejected(op, arg, code) ==
    /\ history' = Append(history, Call(op, <<>>, <<arg>>, code, "", EmptyGraph, EmptyGraph))
    /\ UNCHANGED <<graphFiles, backups, lockFile, uuids, now, maxBackups, vecVars, procVars>>

\* The UTF-16 code units of the strings of the inputs.
Chars(s) ==
    CASE s = "" -> <<>>
      [] s = " " -> <<" ">>
      [] s = "Redis" -> <<"R", "e", "d", "i", "s">>
      [] s = "redis" -> <<"r", "e", "d", "i", "s">>
      [] s = "Caching" -> <<"C", "a", "c", "h", "i", "n", "g">>
      [] s = "Memcached" -> <<"M", "e", "m", "c", "a", "c", "h", "e", "d">>
      [] s = "Cache" -> <<"C", "a", "c", "h", "e">>
      [] s = "KV-Store" -> <<"K", "V", "-", "S", "t", "o", "r", "e">>
      [] s = "CACH" -> <<"C", "A", "C", "H">>
      [] s = "kv" -> <<"k", "v">>
      [] s = "e" -> <<"e">>
      [] s = "E1" -> <<"E", "1">>
      [] s = "E2" -> <<"E", "2">>
      [] s = "E3" -> <<"E", "3">>
      [] s = LongName -> [i \in 1..501 |-> "x"]

UpperCase ==
    <<"A", "B", "C", "D", "E", "F", "G", "H", "I", "J", "K", "L", "M",
      "N", "O", "P", "Q", "R", "S", "T", "U", "V", "W", "X", "Y", "Z">>
LowerCase ==
    <<"a", "b", "c", "d", "e", "f", "g", "h", "i", "j", "k", "l", "m",
      "n", "o", "p", "q", "r", "s", "t", "u", "v", "w", "x", "y", "z">>

\* String.prototype.toLowerCase, code unit by code unit.
Lower(s) ==
    LET cs == Chars(s)
        lower(c) == IF \E i \in DOMAIN UpperCase : UpperCase[i] = c
                    THEN LowerCase[CHOOSE i \in DOMAIN UpperCase : UpperCase[i] = c]
                    ELSE c
    IN  [i \in DOMAIN cs |-> lower(cs[i])]

\* String.prototype.includes: q occurs in text at some offset.
StrEquals(text, q) == text = q
StrIncludes(text, q) ==
    \E k \in 0..(Len(text) - Len(q)) : SubSeq(text, k + 1, k + Len(q)) = q

\* search: the entities whose name or observations include the query, and the
\* relations that touch them.
SearchResult(graph, query) ==
    LET q == Lower(query)
        hit(e) == \/ StrIncludes(Lower(e.name), q)
                  \/ \E i \in 1..Len(e.observations) : StrIncludes(Lower(e.observations[i]), q)
        entities == SelectSeq(graph.entities, hit)
        ids == {entities[i].id : i \in 1..Len(entities)}
        touches(r) == r.fromId \in ids \/ r.toId \in ids
    IN  [entities |-> entities, relations |-> SelectSeq(graph.relations, touches)]

\* A read as it would be if it failed while a lock marker exists.
AnsweredUnlessLocked(op, context, arg, ret) ==
    /\ history' = Append(history,
           Call(op, context, <<arg>>, IF lockFile.exists THEN "LOCK_ERROR" ELSE "",
                ret, EmptyGraph, EmptyGraph))
    /\ UNCHANGED <<graphFiles, backups, lockFile, uuids, now, maxBackups, vecVars, procVars>>

\* A read of the graph file that the call returns; nothing changes.
Answered(op, context, arg, ret) ==
    /\ history' = Append(history, Call(op, context, <<arg>>, "", ret, EmptyGraph, EmptyGraph))
    /\ UNCHANGED <<graphFiles, backups, lockFile, uuids, now, maxBackups, vecVars, procVars>>

\* addEntity(entity, context): sanitizeString, validateObservations, then
\* updateGraph, which starts with validateContext.
PublicAddEntity(entity, context) ==
    LET name == SanitizeString(entity.name, 500)
        observations == ValidateObservations(entity.observations)
        ctx == ValidateContext(context)
        threw == FirstThrown(<<name, observations, ctx>>)
    IN  IF threw # "" THEN Rejected("addEntity", <<entity, context>>, threw)
        ELSE AddEntity(Ent(entity.name.s, entity.entityType, observations.value), ctx.value)

\* addRelation(relation, context).
PublicAddRelation(relation, context) ==
    LET from == SanitizeString(relation.from, 500)
        to == SanitizeString(relation.to, 500)
        relationType == RequireString(relation.relationType)
        ctx == ValidateContext(context)
        threw == FirstThrown(<<from, to, relationType, ctx>>)
    IN  IF threw # "" THEN Rejected("addRelation", <<relation, context>>, threw)
        ELSE AddRelation(Rel(relation.from.s, relation.to.s, relation.relationType.s),
                         ctx.value)

\* undo(context).
PublicUndo(context) ==
    LET ctx == ValidateContext(context)
    IN  IF ctx.threw # "" THEN Rejected("undo", <<context>>, ctx.threw)
        ELSE Undo(ctx.value)

\* search(query, options, context): requireString, then loadGraph, which
\* starts with validateContext.
Search(query, context) ==
    LET q == RequireString(query)
        ctx == ValidateContext(context)
        threw == FirstThrown(<<q, ctx>>)
    IN  IF threw # "" THEN Rejected("search", <<query, context>>, threw)
        ELSE Answered("search", ctx.value, <<query, context>>,
                      SearchResult(LoadGraph(graphFiles, ctx.value), query.s))

\* getAll(context).
GetAll(context) ==
    LET ctx == ValidateContext(context)
    IN  IF ctx.threw # "" THEN Rejected("getAll", <<context>>, ctx.threw)
        ELSE Answered("getAll", ctx.value, <<context>>, LoadGraph(graphFiles, ctx.value))

\* ------------------------------------------------ the public specification
\* One caller of the public operations with well-formed and malformed
\* arguments, on a directory whose default context was written twice and
\* where a process that died may have left its marker.
StaleMarker ==
    [exists |-> TRUE, creator |-> NumProcs + 1, content |-> ToString(NumProcs + 1),
     old |-> FALSE]

BadContext == <<"a", "/", "b">>

PublicContexts == {Str(DefaultContext), Str(BadContext), Str(<<>>), Num}

PublicEntities ==
    [name : {Str(""), Str(" "), Str("Redis"), Str(LongName), Undefined},
     entityType : {""},
     observations : {Undefined, Arr(<<"Cache">>), Str("Cache")}]

PublicRelations ==
    [from : {Str(""), Str("Redis")}, to : {Str(""), Str("Caching")},
     relationType : {Str(""), Str("supports")}]

PublicQueries == {Str(""), Str(" "), Str("redis"), Undefined}

PublicOps == MaxOps - 2

PublicInit ==
    /\ graphFiles = InitialStore.files
    /\ backups = InitialStore.backups
    /\ uuids = InitialStore.uuids
    /\ lockFile \in {NoLock, StaleMarker}
    /\ now = 0
    /\ maxBackups = DefaultMaxBackups
    /\ history = <<>>
    /\ ProcInit
    /\ VectorInit

CallAddEntity ==
    /\ Len(history) < PublicOps
    /\ \E e \in PublicEntities, c \in PublicContexts : PublicAddEntity(e, c)

CallAddRelation ==
    /\ Len(history) < PublicOps
    /\ \E r \in PublicRelations, c \in PublicContexts : PublicAddRelation(r, c)

CallUndo ==
    /\ Len(history) < PublicOps
    /\ \E c \in PublicContexts : PublicUndo(c)

CallSearch ==
    /\ Len(history) < PublicOps
    /\ \E q \in PublicQueries, c \in PublicContexts : Search(q, c)

CallGetAll ==
    /\ Len(history) < PublicOps
    /\ \E c \in PublicContexts : GetAll(c)

PublicNext == CallAddEntity \/ CallAddRelation \/ CallUndo \/ CallSearch \/ CallGetAll

PublicSpec == PublicInit /\ [][PublicNext]_vars

\* ------------------------------------------------------------------ C18
\* The malformed arguments: an empty name, observations that are not an
\* array, an empty endpoint or relation type, an empty query, a context name
\* with a character other than letters, digits, hyphen and underscore.
InvalidEntity(e) == e.name = Str("") \/ e.observations.t \notin {"array", "undefined"}
InvalidRelation(r) == Str("") \in {r.from, r.to, r.relationType}
InvalidQuery(q) == q = Str("")
InvalidContext(c) == c.t = "string" /\ \E i \in 1..Len(c.s) : ~ContextChar(c.s[i])

\* The step ended a call with ValidationError and left the lock marker, the
\* graph files and the backup directory as they were.
RaisedValidation ==
    /\ Len(history') = Len(history) + 1
    /\ history'[Len(history')].err = "VALIDATION_ERROR"
    /\ UNCHANGED <<lockFile, graphFiles, backups, uuids>>

\* C18: a public operation with a malformed argument or an invalid context
\* name raises ValidationError, and a call that raises ValidationError has
\* created no lock marker, no snapshot and no change to the graph file.
C18_ValidationBeforeLock ==
    [][/\ \A e \in PublicEntities, c \in PublicContexts :
              (PublicAddEntity(e, c) /\ (InvalidEntity(e) \/ InvalidContext(c)))
                  => RaisedValidation
       /\ \A r \in PublicRelations, c \in PublicContexts :
              (PublicAddRelation(r, c) /\ (InvalidRelation(r) \/ InvalidContext(c)))
                  => RaisedValidation
       /\ \A q \in PublicQueries, c \in PublicContexts :
              (Search(q, c) /\ (InvalidQuery(q) \/ InvalidContext(c)))
                  => RaisedValidation
       /\ \A c \in PublicContexts :
              ((PublicUndo(c) \/ GetAll(c)) /\ InvalidContext(c)) => RaisedValidation
       /\ (/\ Len(history') = Len(history) + 1
           /\ history'[Len(history')].err = "VALIDATION_ERROR") => RaisedValidation]_vars

\* An addEntity with a malformed argument was rejected while a dead process's
\* marker, which a transaction would have reclaimed, stayed at the lock path.
C18_Witness ==
    /\ Len(history) > 0
    /\ Last.op = "addEntity" /\ Last.err = "VALIDATION_ERROR"
    /\ lockFile = StaleMarker

\* ------------------------------------------------ the ingest specification
\* One caller who adds entities and relations and ingests files into the
\* default context, with no undo.
IngestOp(name, entityType, observations, id, relations) ==
    [kind |-> "ingest", name |-> name, entityType |-> entityType,
     observations |-> observations, id |-> id, relations |-> relations]

\* extractRelations: one target of the file's data.
Target(to, type) == [to |-> to, type |-> type]

RedisFile == IngestOp("Redis", "Database", <<"KV-Store">>, "", <<Target("Caching", "related_to")>>)
PatternFile == IngestOp("Pattern", "Concept", <<"v1">>, "", <<Target("Ghost", "includes")>>)
RecipeFile == IngestOp("Recipe", "Concept", <<>>, "recipe-1", <<>>)

IngestBatches ==
    {<<RedisFile>>, <<PatternFile>>, <<RecipeFile>>, <<PatternFile, RedisFile>>}

IngestEntities == {Redis1, Redis2, Caching}

IngestRelationInputs == {Rel("Redis", "Caching", "supports"), Rel("Redis", "Ghost", "supports")}

\* IngestManager.ingest, "Execute Batch": one updateGraph on the default
\* context that runs the files' operations in order.
Ingest(ops) ==
    /\ UpdateGraph("ingest", ops, DefaultContext)
    /\ UNCHANGED <<now, maxBackups, vecVars, procVars>>

IngestInit ==
    /\ \E store \in {FreshStore, InitialStore} :
          /\ graphFiles = store.files
          /\ backups = store.backups
          /\ uuids = store.uuids
    /\ lockFile = NoLock
    /\ now = 0
    /\ maxBackups = DefaultMaxBackups
    /\ history = <<>>
    /\ ProcInit
    /\ VectorInit

IngestAddEntity ==
    /\ Len(history) < MaxOps
    /\ \E e \in IngestEntities : AddEntity(e, DefaultContext)

IngestAddRelation ==
    /\ Len(history) < MaxOps
    /\ \E r \in IngestRelationInputs : AddRelation(r, DefaultContext)

IngestFiles ==
    /\ Len(history) < MaxOps
    /\ \E ops \in IngestBatches : Ingest(ops)

IngestTick == Len(history) < MaxOps /\ Tick

IngestNext == IngestAddEntity \/ IngestAddRelation \/ IngestFiles \/ IngestTick

IngestSpec == IngestInit /\ [][IngestNext]_vars

\* ------------------------------------------------------------------ C19
\* The elements of s occur in t in the same relative order.
RECURSIVE IsSubsequence(_, _)
IsSubsequence(s, t) ==
    IF s = <<>> THEN TRUE
    ELSE IF t = <<>> THEN FALSE
    ELSE IF Head(s) = Head(t) THEN IsSubsequence(Tail(s), Tail(t))
    ELSE IsSubsequence(s, Tail(t))

\* Every entity, observation and relation of `old` is in `new`.
PreservedIn(old, new) ==
    /\ \A i \in 1..Len(old.entities) : \E j \in 1..Len(new.entities) :
          /\ new.entities[j].id = old.entities[i].id
          /\ new.entities[j].name = old.entities[i].name
          /\ new.entities[j].entityType = old.entities[i].entityType
          /\ IsSubsequence(old.entities[i].observations, new.entities[j].observations)
    /\ \A i \in 1..Len(old.relations) : \E j \in 1..Len(new.relations) :
          new.relations[j] = old.relations[i]

\* The graph files as the first k calls left them.
FilesAfter(k) == IF k = Len(history) THEN graphFiles ELSE history[k + 1].pre

\* C19: with no undo, everything the persisted graph held after one
\* transaction, entities, observations in their order and relations, it still
\* holds after each later one.
C19_NothingRemoved ==
    \A k \in 0..Len(history) :
        PreservedIn(LoadGraph(FilesAfter(k), DefaultContext),
                    LoadGraph(graphFiles, DefaultContext))

\* An ingest merged observations into an entity that had some, in a graph that
\* had a relation.
C19_Witness ==
    /\ Len(history) > 1 /\ Last.op = "ingest" /\ Last.err = ""
    /\ LET old == LoadGraph(Last.pre, DefaultContext)
           new == LoadGraph(graphFiles, DefaultContext)
       IN  /\ Len(old.relations) > 0
           /\ \E i \in 1..Len(old.entities) :
                 /\ Len(old.entities[i].observations) > 0
                 /\ Len(new.entities[i].observations) > Len(old.entities[i].observations)

\* ------------------------------------------------------------------ C20
\* The ids of the form urn:uks:<namespace>:<type-slug>:<uuid> over the
\* namespaces, type slugs and UUIDs of the run.
UrnIds ==
    {"urn:uks:" \o namespace \o ":" \o slug \o ":" \o RandomUUID(k) :
        namespace \in {"local"}, slug \in {"database", "concept"}, k \in 0..uuids}

\* C20: every entity that a transaction created, by addEntity or by an ingest
\* batch, stubs of relation targets included, has an id of the form
\* urn:uks:<namespace>:<type-slug>:<uuid>.
C20_IdsAreUrns ==
    LET es == LoadGraph(graphFiles, DefaultContext).entities
    IN  \A i \in 1..Len(es) : es[i].id \in UrnIds

\* ------------------------------------------------------------ VectorManager
\* A VectorManager: its records in memory and whether it has loaded the file.
NewManager == [vectors |-> <<>>, loaded |-> FALSE]

ManagerOf(self) == [vectors |-> vectors[self], loaded |-> isLoaded[self]]

\* generateEmbedding(text): what the embedding pipeline answers for the text.
GenerateEmbedding(text) == <<"embedding", text>>

\* A description of 201 characters and its first 200.
LongText == "y...y"
LongTextHead == "y..y"

\* text.substring(0, 200) on the texts of the inputs.
Substring200(text) == IF text = LongText THEN LongTextHead ELSE text

\* init: loadVectors unless this manager has loaded before; an absent file
\* gives no records.
InitManager(vm, file) ==
    IF vm.loaded THEN vm ELSE [vectors |-> file, loaded |-> TRUE]

\* this.vectors.findIndex(v => v.id === id), 0 for none.
FindIndexById(vs, id) == First({i \in 1..Len(vs) : vs[i].id = id})

\* Replace the record of the same id where it is, or push.
PutRecord(vs, record) ==
    LET index == FindIndexById(vs, record.id)
    IN  IF index # 0 THEN [vs EXCEPT ![index] = record] ELSE Append(vs, record)

\* upsert as it would be if it always pushed.
UpsertPush(vm, file, id, text) ==
    LET ready == InitManager(vm, file)
        vs == Append(ready.vectors, [id |-> id, text |-> Substring200(text),
                                     vector |-> GenerateEmbedding(text)])
    IN  [vm |-> [ready EXCEPT !.vectors = vs], file |-> vs, threw |-> ""]

\* upsert(id, text): nothing for an empty text; requireString(id); load on
\* first use, embed, replace or push, saveVectors rewrites the whole file.
Upsert(vm, file, id, text) ==
    IF text = "" THEN [vm |-> vm, file |-> file, threw |-> ""]
    ELSE IF RequireString(Str(id)).threw # ""
    THEN [vm |-> vm, file |-> file, threw |-> "VALIDATION_ERROR"]
    ELSE LET ready == InitManager(vm, file)
             record == [id |-> id, text |-> Substring200(text),
                        vector |-> GenerateEmbedding(text)]
             vs == PutRecord(ready.vectors, record)
         IN  [vm |-> [ready EXCEPT !.vectors = vs], file |-> vs, threw |-> ""]

\* observations.join('. ')
RECURSIVE Join(_)
Join(strings) ==
    IF strings = <<>> THEN ""
    ELSE IF Len(strings) = 1 THEN strings[1]
    ELSE strings[1] \o ". " \o Join(Tail(strings))

\* `[${entityType || 'Concept'}] ${name}. ${observations.join('. ')}`
EntityText(entity) ==
    "[" \o OrConcept(entity.entityType) \o "] " \o entity.name \o ". "
        \o Join(entity.observations)

\* The loop of embedAll over the entities, in graph order.
RECURSIVE EmbedEntities(_, _, _, _)
EmbedEntities(entities, vs, force, count) ==
    IF entities = <<>> THEN [vectors |-> vs, count |-> count]
    ELSE LET entity == Head(entities)
             existing == FindIndexById(vs, entity.id)
             text == EntityText(entity)
             record == [id |-> entity.id, text |-> text,
                        vector |-> GenerateEmbedding(text),
                        metadata |-> [type |-> entity.entityType, name |-> entity.name]]
         IN  IF existing # 0 /\ ~force
             THEN EmbedEntities(Tail(entities), vs, force, count)
             ELSE EmbedEntities(Tail(entities), PutRecord(vs, record), force, count + 1)

\* embedAll as it would be if it embedded only the first entity.
EmbedFirst(vm, file, graph, force) ==
    LET ready == InitManager(vm, file)
        r == EmbedEntities(SubSeq(graph.entities, 1, 1), ready.vectors, force, 0)
    IN  [vm |-> [ready EXCEPT !.vectors = r.vectors],
         file |-> IF r.count > 0 THEN r.vectors ELSE file, count |-> r.count]

\* embedAll(force) on the graph getAll returned: saveVectors only when
\* something was embedded.
EmbedAll(vm, file, graph, force) ==
    LET ready == InitManager(vm, file)
        r == EmbedEntities(graph.entities, ready.vectors, force, 0)
    IN  [vm |-> [ready EXCEPT !.vectors = r.vectors],
         file |-> IF r.count > 0 THEN r.vectors ELSE file, count |-> r.count]

\* ------------------------------------------- ingest with a vector manager
\* A file whose data has a description.
Described(op, description) ==
    [kind |-> "ingest", name |-> op.name, entityType |-> op.entityType,
     observations |-> op.observations, id |-> op.id, relations |-> op.relations,
     description |-> description]

\* One batch operation of IngestManager.ingest with a vector manager: a new
\* entity's text is upserted under the entity's id before the entity is pushed.
IngestOperation(op, graph, n, vm, file) ==
    LET i == FindByName(graph, op.name)
        newId == IF op.id # "" THEN op.id ELSE NewId(op.entityType, n)
        textContent == IF op.description # "" THEN op.description ELSE op.name
        up == IF i # 0 THEN [vm |-> vm, file |-> file, threw |-> ""]
              ELSE Upsert(vm, file, newId, textContent)
        r == IngestMutator(op, graph, n)
    IN  IF up.threw # ""
        THEN [graph |-> graph, threw |-> up.threw, entityId |-> "",
              drawn |-> IF op.id = "" THEN n + 1 ELSE n, vm |-> up.vm, file |-> up.file]
        ELSE [graph |-> r.graph, threw |-> "", entityId |-> "",
              drawn |-> r.drawn, vm |-> up.vm, file |-> up.file]

\* The updater of "Execute Batch": the operations in file order on the one
\* graph, up to the first that raises.
RECURSIVE RunOperations(_, _, _, _, _)
RunOperations(ops, graph, n, vm, file) ==
    IF ops = <<>>
    THEN [graph |-> graph, threw |-> "", entityId |-> "", drawn |-> n,
          vm |-> vm, file |-> file]
    ELSE LET r == IngestOperation(Head(ops), graph, n, vm, file)
         IN  IF r.threw # "" THEN r
             ELSE RunOperations(Tail(ops), r.graph, r.drawn, r.vm, r.file)

\* ingest without dryRun: no transaction for no operations, else one
\* updateGraph on the default context around the updater.
IngestWithVectors(ops) ==
    LET acq == AcquireLockAlone(lockFile, Self, 0)
        graph == LoadGraph(graphFiles, DefaultContext)
        r == RunOperations(ops, graph, uuids, ManagerOf(Self), vectorFile)
    IN  /\ IF ops = <<>>
           THEN /\ UNCHANGED <<graphFiles, backups, lockFile, uuids, vecVars>>
                /\ history' = Append(history,
                       Call("ingest", DefaultContext, ops, "", "", EmptyGraph, EmptyGraph))
           ELSE IF ~acq.ok
           THEN /\ lockFile' = acq.lock
                /\ UNCHANGED <<graphFiles, backups, uuids, vecVars>>
                /\ history' = Append(history,
                       Call("ingest", DefaultContext, ops, "LOCK_ERROR", "",
                            EmptyGraph, EmptyGraph))
           ELSE /\ uuids' = r.drawn
                /\ vectorFile' = r.file
                /\ vectors' = [vectors EXCEPT ![Self] = r.vm.vectors]
                /\ isLoaded' = [isLoaded EXCEPT ![Self] = r.vm.loaded]
                /\ UNCHANGED disk
                /\ IF Commits(r)
                   THEN /\ backups' = CreateSnapshot(backups, graphFiles, DefaultContext,
                                                     now, maxBackups)
                        /\ graphFiles' = PutFile(graphFiles, DefaultContext,
                                                 Serialize(r.graph))
                   ELSE UNCHANGED <<graphFiles, backups>>
                /\ lockFile' = ReleaseLock(acq.lock, Self)
                /\ history' = Append(history,
                       Call("ingest", DefaultContext, ops, r.threw, "", graph, r.graph))
        /\ UNCHANGED <<now, maxBackups, procVars>>

\* A direct call of upsert(id, text) on the caller's manager.
CallUpsert(id, text) ==
    LET r == Upsert(ManagerOf(Self), vectorFile, id, text)
    IN  /\ vectorFile' = r.file
        /\ vectors' = [vectors EXCEPT ![Self] = r.vm.vectors]
        /\ isLoaded' = [isLoaded EXCEPT ![Self] = r.vm.loaded]
        /\ UNCHANGED disk
        /\ history' = Append(history,
               Call("upsert", DefaultContext, <<id, text>>, r.threw, "",
                    EmptyGraph, EmptyGraph))
        /\ UNCHANGED <<graphFiles, backups, lockFile, uuids, now, maxBackups, procVars>>

\* A call of embedAll(force); its graph manager reads the default context.
CallEmbedAll(force) ==
    LET graph == LoadGraph(graphFiles, DefaultContext)
        r == EmbedAll(ManagerOf(Self), vectorFile, graph, force)
    IN  /\ vectorFile' = r.file
        /\ vectors' = [vectors EXCEPT ![Self] = r.vm.vectors]
        /\ isLoaded' = [isLoaded EXCEPT ![Self] = r.vm.loaded]
        /\ UNCHANGED disk
        /\ history' = Append(history,
               Call("embedAll", DefaultContext, <<force>>, "", r.count, graph, graph))
        /\ UNCHANGED <<graphFiles, backups, lockFile, uuids, now, maxBackups, procVars>>

\* ------------------------------------------------ the vector specification
\* One caller with one VectorManager on the default context: ingest with the
\* manager attached, upsert, embedAll and addEntity.
RedisData == Described(RedisFile, "")
RecipeData == Described(RecipeFile, LongText)
DishData == Described(IngestOp("Dish", "Concept", <<>>, "recipe-1", <<>>), "")
BlankIdData == Described(IngestOp("Pattern", "Concept", <<"v1">>, " ", <<>>), "")

VecBatches ==
    {<<>>, <<RedisData>>, <<RecipeData>>, <<RedisData, BlankIdData>>,
     <<RecipeData, DishData>>}

\* The files of an ingest by an IngestManager that has no vector manager.
DishFile == IngestOp("Dish", "Concept", <<>>, "recipe-1", <<>>)

PlainBatches == {<<RecipeFile, DishFile>>, <<PatternFile>>}

VecEntities == {Redis2, Caching}

VecIds == {"recipe-1", " "}

VecTexts == {"", LongText}

\* The graph of the populated store as it was after its first addEntity.
FirstGraph ==
    LoadGraph(PutFile(NoFiles, DefaultContext,
                      InitialStore.backups[BackupName(DefaultContext, 0)]),
              DefaultContext)

\* A fresh directory, or the populated one where embedAll ran in an earlier
\* process after the first addEntity.
VecInit ==
    /\ \/ /\ graphFiles = FreshStore.files
          /\ backups = FreshStore.backups
          /\ uuids = FreshStore.uuids
          /\ vectorFile = <<>>
       \/ /\ graphFiles = InitialStore.files
          /\ backups = InitialStore.backups
          /\ uuids = InitialStore.uuids
          /\ vectorFile = EmbedAll(NewManager, <<>>, FirstGraph, FALSE).file
    /\ vectors = [p \in Procs |-> <<>>]
    /\ isLoaded = [p \in Procs |-> FALSE]
    /\ disk = <<>>
    /\ lockFile = NoLock
    /\ now = 0
    /\ maxBackups = DefaultMaxBackups
    /\ history = <<>>
    /\ ProcInit

VecIngest ==
    /\ Len(history) < MaxOps
    /\ \E ops \in VecBatches : IngestWithVectors(ops)

VecIngestPlain ==
    /\ Len(history) < MaxOps
    /\ \E ops \in PlainBatches : Ingest(ops)

VecUpsert ==
    /\ Len(history) < MaxOps
    /\ \E id \in VecIds \cup KnownIds(DefaultContext), text \in VecTexts :
          CallUpsert(id, text)

VecEmbedAll ==
    /\ Len(history) < MaxOps
    /\ \E force \in BOOLEAN : CallEmbedAll(force)

VecAddEntity ==
    /\ Len(history) < MaxOps
    /\ \E e \in VecEntities : AddEntity(e, DefaultContext)

VecTick == Len(history) < MaxOps /\ Tick

VecNext == VecIngest \/ VecIngestPlain \/ VecUpsert \/ VecEmbedAll \/ VecAddEntity \/ VecTick

VectorSpec == VecInit /\ [][VecNext]_vars

\* ------------------------------------------------------------------ C21
\* The snapshots that are new or have new content since the call began.
NewSnapshots(call) ==
    {f \in DOMAIN backups : f \notin DOMAIN call.preb \/ backups[f] # call.preb[f]}

\* C21: an ingest over any number of files is one updateGraph transaction: no
\* marker is left, at most one snapshot is created, the graph file is as before
\* or is the one serialization of the graph all operations worked on, and when
\* a queued operation raised the graph files and backups are as before the
\* call, so that none of the files' entities or relations is persisted.
C21_IngestOneTransaction ==
    (Len(history) > 0 /\ Last.op = "ingest")
        => /\ ~lockFile.exists
           /\ Cardinality(NewSnapshots(Last)) <= 1
           /\ \/ graphFiles = Last.pre
              \/ graphFiles = PutFile(Last.pre, DefaultContext, Serialize(Last.mem))
           /\ Last.err # "" => (graphFiles = Last.pre /\ backups = Last.preb)

\* An ingest of two files whose second operation raised after the first had
\* put a new entity into the graph in memory.
C21_Witness ==
    /\ Len(history) > 0 /\ Last.op = "ingest" /\ Last.err # ""
    /\ Len(Last.arg) > 1
    /\ Len(Last.mem.entities) > Len(Last.loaded.entities)
    /\ Len(Last.loaded.entities) > 0

\* ------------------------------------------------------------------ C22
\* The records of the vector file that the last call put there.
Upserted(call) ==
    {j \in 1..Len(vectorFile) : ~ \E k \in 1..Len(call.prev) : call.prev[k] = vectorFile[j]}

\* C22: after an ingest call, committed or aborted, every vector record it
\* upserted carries the id of an entity of the persisted graph.
C22_VectorsOfPersistedEntities ==
    (Len(history) > 0 /\ Last.op = "ingest")
        => LET es == LoadGraph(graphFiles, DefaultContext).entities
           IN  \A j \in Upserted(Last) : \E i \in 1..Len(es) : es[i].id = vectorFile[j].id

\* ------------------------------------------ the shared-vectors specification
\* Processes with one VectorManager each on one storage directory whose
\* default context holds Redis and Caching. saveVectors' writeFile empties
\* vectors.jsonl when it opens it and writes the lines afterwards.
SharedOps == MaxOps - 1

SharedIds == {"recipe-1", "dish-2"}

SharedInit ==
    /\ graphFiles = InitialStore.files
    /\ backups = InitialStore.backups
    /\ uuids = InitialStore.uuids
    /\ vectorFile \in {<<>>, EmbedAll(NewManager, <<>>, FirstGraph, FALSE).file}
    /\ vectors = [p \in Procs |-> <<>>]
    /\ isLoaded = [p \in Procs |-> FALSE]
    /\ disk = <<>>
    /\ lockFile = NoLock
    /\ now = 0
    /\ maxBackups = DefaultMaxBackups
    /\ history = <<>>
    /\ ProcInit

\* The call of process self returns.
Return(self, err, ret) ==
    /\ history' = Append(history,
           Call(calls[self].op, DefaultContext, calls[self].data, err, ret,
                EmptyGraph, EmptyGraph))
    /\ pc' = [pc EXCEPT ![self] = "idle"]

\* A process calls upsert(id, text) or embedAll(force).
StartVector(self) ==
    /\ pc[self] = "idle"
    /\ Len(history) < SharedOps
    /\ \/ \E id \in SharedIds :
             calls' = [calls EXCEPT ![self] =
                          [op |-> "upsert", err |-> "pending", data |-> <<id, "Redis">>]]
       \/ \E force \in BOOLEAN :
             calls' = [calls EXCEPT ![self] =
                          [op |-> "embedAll", err |-> "pending", data |-> <<force>>]]
    /\ pc' = [pc EXCEPT ![self] = "init"]
    /\ UNCHANGED <<graphFiles, backups, lockFile, now, uuids, maxBackups, history,
                   tries, seen, mem, alive, vecVars>>

\* init and the synchronous part of the call: loadVectors on first use, then
\* the records are replaced or pushed in memory; embedAll that embedded nothing
\* returns without saving.
LoadAndEmbed(self) ==
    /\ pc[self] = "init"
    /\ LET op == calls[self]
           r == IF op.op = "upsert"
                THEN Upsert(ManagerOf(self), vectorFile, op.data[1], op.data[2])
                ELSE EmbedAll(ManagerOf(self), vectorFile,
                              LoadGraph(graphFiles, DefaultContext), op.data[1])
       IN  /\ vectors' = [vectors EXCEPT ![self] = r.vm.vectors]
           /\ isLoaded' = [isLoaded EXCEPT ![self] = r.vm.loaded]
           /\ UNCHANGED disk
           /\ IF op.op = "embedAll" /\ r.count = 0
              THEN Return(self, "", 0)
              ELSE pc' = [pc EXCEPT ![self] = "save"] /\ UNCHANGED history
    /\ UNCHANGED <<graphFiles, backups, lockFile, now, uuids, maxBackups,
                   tries, seen, mem, calls, alive, vectorFile>>

\* saveVectors: writeFile opens vectors.jsonl, which empties it.
OpenVectorFile(self) ==
    /\ pc[self] = "save"
    /\ vectorFile' = <<>>
    /\ pc' = [pc EXCEPT ![self] = "write"]
    /\ UNCHANGED <<graphFiles, backups, lockFile, now, uuids, maxBackups, history,
                   tries, seen, mem, calls, alive, vectors, isLoaded, disk>>

\* saveVectors: the lines of this manager's records become the file.
WriteVectorFile(self) ==
    /\ pc[self] = "write"
    /\ vectorFile' = vectors[self]
    /\ Return(self, "", "")
    /\ UNCHANGED <<graphFiles, backups, lockFile, now, uuids, maxBackups,
                   tries, seen, mem, calls, alive, vectors, isLoaded, disk>>

SharedNext ==
    \/ \E self \in Procs : StartVector(self)
    \/ \E self \in Procs : LoadAndEmbed(self)
    \/ \E self \in Procs : OpenVectorFile(self)
    \/ \E self \in Procs : WriteVectorFile(self)

SharedVectorSpec == SharedInit /\ [][SharedNext]_vars

\* ------------------------------------------------------------------ C23
IdsOf(records) == {records[i].id : i \in 1..Len(records)}

\* Some process is between the open and the write of vectors.jsonl.
Saving == \E p \in Procs : pc[p] = "write"

\* C23: a record for an id that the vector file held when some call returned
\* is in every later content of the file that a save has completed, for any
\* interleaving of upsert and embedAll by the processes.
C23_VectorsNeverDeleted ==
    ~Saving => \A k \in 1..Len(history) : IdsOf(history[k].prev) \subseteq IdsOf(vectorFile)

\* ------------------------------------------------------------------ C24
Distinct(records) ==
    \A i, j \in 1..Len(records) : records[i].id = records[j].id => i = j

\* C24: one manager, a vector file that began with distinct ids: after every
\* call the records in memory and those of the file have distinct ids, and an
\* upsert for an id that had a record leaves the record count and every other
\* record as they were and puts the new record where the old one was.
C24_OneRecordPerId ==
    /\ Distinct(vectors[Self])
    /\ Distinct(vectorFile)
    /\ (/\ Len(history) > 0 /\ Last.op = "upsert" /\ Last.err = ""
        /\ Last.arg[2] # "" /\ Last.arg[1] \in IdsOf(Last.prev))
          => /\ Len(vectorFile) = Len(Last.prev)
             /\ \A j \in 1..Len(vectorFile) :
                   IF Last.prev[j].id = Last.arg[1]
                   THEN vectorFile[j] = [id |-> Last.arg[1],
                                         text |-> Substring200(Last.arg[2]),
                                         vector |-> GenerateEmbedding(Last.arg[2])]
                   ELSE vectorFile[j] = Last.prev[j]
             /\ vectors[Self] = vectorFile

\* An upsert replaced the first of two records.
C24_Witness ==
    /\ Len(history) > 0 /\ Last.op = "upsert" /\ Last.err = ""
    /\ Len(Last.prev) > 1
    /\ Last.prev[1].id = Last.arg[1]
    /\ vectorFile # Last.prev

\* ------------------------------------------------------------------ C25
\* The record embedAll makes of an entity.
EmbeddedFrom(entity) ==
    [id |-> entity.id, text |-> EntityText(entity),
     vector |-> GenerateEmbedding(EntityText(entity)),
     metadata |-> [type |-> entity.entityType, name |-> entity.name]]

\* C25: after embedAll every entity of the graph has exactly one record of its
\* id; embedAll(false) returns the number of entities that had no record before
\* and leaves the records that existed as they were; embedAll(true) leaves for
\* every entity the record made of it and returns the number of entities.
C25_EmbedAllCounts ==
    (Len(history) > 0 /\ Last.op = "embedAll")
        => LET es == Last.loaded.entities
               before == Last.prev
               after == vectors[Self]
           IN  /\ after = vectorFile
               /\ \A i \in 1..Len(es) :
                     Cardinality({j \in 1..Len(after) : after[j].id = es[i].id}) = 1
               /\ ~Last.arg[1] =>
                     /\ Last.ret = Cardinality({i \in 1..Len(es) : es[i].id \notin IdsOf(before)})
                     /\ \A j \in 1..Len(before) : after[j] = before[j]
               /\ Last.arg[1] =>
                     /\ Last.ret = Len(es)
                     /\ \A i \in 1..Len(es) : \E j \in 1..Len(after) :
                           after[j] = EmbeddedFrom(es[i])

\* ------------------------------------------------- IEEE 754 double precision
\* JavaScript numbers are binary64. A finite non-zero number is
\* sign * m * 2^e with m a natural of exactly SignificandBits bits; naturals
\* wider than TLC's integers are little-endian sequences of limbs below Base.
SignificandBits == 53

Base == 2^15

Limb(a, i) == IF i <= Len(a) THEN a[i] ELSE 0

RECURSIVE Strip(_)
Strip(a) == IF a # <<>> /\ a[Len(a)] = 0 THEN Strip(SubSeq(a, 1, Len(a) - 1)) ELSE a

RECURSIVE Big(_)
Big(n) == IF n = 0 THEN <<>> ELSE <<n % Base>> \o Big(n \div Base)

RECURSIVE AddFrom(_, _, _, _)
AddFrom(a, b, i, carry) ==
    IF i > Len(a) /\ i > Len(b) THEN (IF carry = 0 THEN <<>> ELSE <<carry>>)
    ELSE LET s == Limb(a, i) + Limb(b, i) + carry
         IN  <<s % Base>> \o AddFrom(a, b, i + 1, s \div Base)

BigAdd(a, b) == AddFrom(a, b, 1, 0)

\* a - b for a >= b
RECURSIVE SubFrom(_, _, _, _)
SubFrom(a, b, i, borrow) ==
    IF i > Len(a) THEN <<>>
    ELSE LET s == Limb(a, i) - Limb(b, i) - borrow
         IN  IF s < 0 THEN <<s + Base>> \o SubFrom(a, b, i + 1, 1)
             ELSE <<s>> \o SubFrom(a, b, i + 1, 0)

BigSub(a, b) == Strip(SubFrom(a, b, 1, 0))

\* -1, 0 or 1 as a is below, equal to or above b
RECURSIVE CmpFrom(_, _, _)
CmpFrom(a, b, i) ==
    IF i = 0 THEN 0
    ELSE IF Limb(a, i) > Limb(b, i) THEN 1
    ELSE IF Limb(a, i) < Limb(b, i) THEN 0 - 1
    ELSE CmpFrom(a, b, i - 1)

BigCmp(a, b) == CmpFrom(a, b, IF Len(a) > Len(b) THEN Len(a) ELSE Len(b))

RECURSIVE MulLimb(_, _, _, _)
MulLimb(a, d, i, carry) ==
    IF i > Len(a) THEN (IF carry = 0 THEN <<>> ELSE <<carry>>)
    ELSE LET p == a[i] * d + carry
         IN  <<p % Base>> \o MulLimb(a, d, i + 1, p \div Base)

RECURSIVE BigMul(_, _)
BigMul(a, b) ==
    IF b = <<>> \/ a = <<>> THEN <<>>
    ELSE Strip(BigAdd(MulLimb(a, b[1], 1, 0), <<0>> \o BigMul(a, Tail(b))))

RECURSIVE Pow2(_)
Pow2(k) == IF k < 15 THEN <<2^k>> ELSE <<0>> \o Pow2(k - 15)

\* The number of bits of a natural below Base, and of a big natural.
RECURSIVE Bits(_)
Bits(n) == IF n = 0 THEN 0 ELSE 1 + Bits(n \div 2)

BitLength(a) ==
    LET s == Strip(a) IN IF s = <<>> THEN 0 ELSE 15 * (Len(s) - 1) + Bits(s[Len(s)])

\* floor(a / 2^k)
ShiftRight(a, k) ==
    LET limbs == k \div 15
        r == k % 15
        rest == IF limbs >= Len(a) THEN <<>> ELSE SubSeq(a, limbs + 1, Len(a))
    IN  Strip([i \in 1..Len(rest) |->
                 (rest[i] \div 2^r) + (Limb(rest, i + 1) % 2^r) * 2^(15 - r)])

IsOdd(a) == a # <<>> /\ a[1] % 2 = 1

\* One bit of the long division of rem by d: bit k of the quotient.
DivStep(st, d, k) ==
    LET t == BigMul(d, Pow2(k))
    IN  IF BigCmp(t, st.rem) <= 0
        THEN [q |-> BigAdd(st.q, Pow2(k)), rem |-> BigSub(st.rem, t)]
        ELSE st

\* The n quotient bits k, k-1, .., k-n+1, the upper half before the lower;
\* the state after the upper half is a value before the lower half starts.
RECURSIVE DivBits(_, _, _, _)
DivBits(st, d, k, n) ==
    IF n = 0 THEN st
    ELSE IF n = 1 THEN DivStep(st, d, k)
    ELSE CHOOSE lower \in {DivBits(upper, d, k - n \div 2, n - n \div 2) :
                              upper \in {DivBits(st, d, k, n \div 2)}} : TRUE

\* One bit of floor(sqrt(n)): bit k is set when the square stays within n.
SqrtStep(r, n, k) ==
    LET t == BigAdd(r, Pow2(k))
    IN  IF BigCmp(BigMul(t, t), n) <= 0 THEN t ELSE r

\* The n bits k, k-1, .., k-n+1 of floor(sqrt(n)).
RECURSIVE SqrtBits(_, _, _, _)
SqrtBits(r, n, k, bits) ==
    IF bits = 0 THEN r
    ELSE IF bits = 1 THEN SqrtStep(r, n, k)
    ELSE CHOOSE lower \in {SqrtBits(upper, n, k - bits \div 2, bits - bits \div 2) :
                              upper \in {SqrtBits(r, n, k, bits \div 2)}} : TRUE

Zero == [s |-> 0, m |-> <<>>, e |-> 0]

\* The double nearest to sign * n * 2^e (n a big natural, sticky: whether
\* bits below n's last were cut off), ties to even.
RoundToDouble(sign, n, e, sticky) ==
    LET bl == BitLength(n)
        k == bl - SignificandBits
    IN  IF bl = 0 THEN Zero
        ELSE IF k <= 0
        THEN [s |-> sign, m |-> Strip(BigMul(n, Pow2(0 - k))), e |-> e + k]
        ELSE LET q == ShiftRight(n, k)
                 r == BigSub(n, BigMul(q, Pow2(k)))
                 half == Pow2(k - 1)
                 c == BigCmp(r, half)
                 up == c > 0 \/ (c = 0 /\ (sticky \/ IsOdd(q)))
                 q1 == IF up THEN BigAdd(q, <<1>>) ELSE q
             IN  IF BitLength(q1) > SignificandBits
                 THEN [s |-> sign, m |-> ShiftRight(q1, 1), e |-> e + k + 1]
                 ELSE [s |-> sign, m |-> Strip(q1), e |-> e + k]

\* An integer below 2^31 as a double: exact.
FromInt(i) ==
    IF i = 0 THEN Zero
    ELSE RoundToDouble(IF i < 0 THEN 0 - 1 ELSE 1, Big(IF i < 0 THEN 0 - i ELSE i), 0, FALSE)

\* x * y
Times(x, y) ==
    IF x.s = 0 \/ y.s = 0 THEN Zero
    ELSE RoundToDouble(x.s * y.s, BigMul(x.m, y.m), x.e + y.e, FALSE)

\* x / y for y # 0
DividedBy(x, y) ==
    IF x.s = 0 THEN Zero
    ELSE CHOOSE quotient \in
            {RoundToDouble(x.s * y.s, Strip(d.q), x.e - y.e - (SignificandBits + 2),
                           d.rem # <<>>) :
                d \in {DivBits([q |-> <<>>, rem |-> rem], divisor,
                               SignificandBits + 3, SignificandBits + 4) :
                          rem \in {BigMul(x.m, Pow2(SignificandBits + 2))},
                          divisor \in {y.m}}} : TRUE

\* Math.sqrt(x) for x > 0
Sqrt(x) ==
    LET even == x.e % 2 = 0
        m2 == IF even THEN x.m ELSE BigAdd(x.m, x.m)
        e2 == IF even THEN x.e ELSE x.e - 1
    IN  CHOOSE root \in
            {RoundToDouble(1, r[2], (e2 - (SignificandBits + 1)) \div 2,
                           BigCmp(BigMul(r[2], r[2]), r[1]) # 0) :
                r \in {<<n, SqrtBits(<<>>, n, SignificandBits, SignificandBits + 1)>> :
                          n \in {BigMul(m2, Pow2(SignificandBits + 1))}}} : TRUE

\* --------------------------------------------------------- cosineSimilarity
\* The sum of vecA[i] * vecB[i] over the first len components. The components
\* of the inputs are small integers, for which every product and partial sum
\* is an integer below 2^53 and so exact in double precision.
RECURSIVE SumProducts(_, _, _)
SumProducts(vecA, vecB, len) ==
    IF len = 0 THEN 0
    ELSE SumProducts(vecA, vecB, len - 1) + vecA[len] * vecB[len]

\* VectorManager.cosineSimilarity(vecA, vecB)
CosineSimilarity(vecA, vecB) ==
    LET len == IF Len(vecA) < Len(vecB) THEN Len(vecA) ELSE Len(vecB)
        dot == SumProducts(vecA, vecB, len)
        normA == SumProducts(vecA, vecA, len)
        normB == SumProducts(vecB, vecB, len)
    IN  IF normA = 0 \/ normB = 0 THEN Zero
        ELSE CHOOSE similarity \in
                {DividedBy(x, y) :
                    x \in {FromInt(dot)},
                    y \in {Times(a, b) : a \in {Sqrt(FromInt(normA))},
                                         b \in {Sqrt(FromInt(normB))}}} : TRUE

\* ------------------------------------------------ the cosine specification
\* One call of cosineSimilarity on two of these vectors.
CosineVectors ==
    {<<>>, <<0, 0, 0>>, <<1, 0>>, <<-1, 0>>, <<0, 1>>, <<1, 1>>, <<-1, -1>>,
     <<1, 0, 0>>, <<1, 1, 0>>, <<1, 1, 1>>, <<-1, -1, -1>>, <<1, 0, 0, 0>>}

CosineInit ==
    /\ graphFiles = FreshStore.files
    /\ backups = FreshStore.backups
    /\ uuids = FreshStore.uuids
    /\ lockFile = NoLock
    /\ now = 0
    /\ maxBackups = DefaultMaxBackups
    /\ ProcInit
    /\ VectorInit
    /\ \E vecA \in CosineVectors, vecB \in CosineVectors :
          history = <<[op |-> "cosineSimilarity", arg |-> <<vecA, vecB>>,
                       err |-> "pending", ret |-> Zero]>>

CallCosineSimilarity ==
    /\ Last.err = "pending"
    /\ history' = <<[Last EXCEPT !.err = "",
                                 !.ret = CosineSimilarity(Last.arg[1], Last.arg[2])]>>
    /\ UNCHANGED <<graphFiles, backups, lockFile, now, uuids, maxBackups, procVars, vecVars>>

CosineNext == CallCosineSimilarity

CosineSpec == CosineInit /\ [][CosineNext]_vars

\* ------------------------------------------------------------------ C26
ZeroNorm(vec) == \A i \in 1..Len(vec) : vec[i] = 0

Opposite(vec) == [i \in 1..Len(vec) |-> 0 - vec[i]]

\* C26: cosineSimilarity returns 0 when either vector has zero norm, 1 for
\* identical and -1 for opposite non-zero vectors, and for vectors of
\* different length what it returns for their common prefixes.
C26_CosineValues ==
    (Last.op = "cosineSimilarity" /\ Last.err = "")
        => LET vecA == Last.arg[1]
               vecB == Last.arg[2]
               len == IF Len(vecA) < Len(vecB) THEN Len(vecA) ELSE Len(vecB)
           IN  /\ (ZeroNorm(vecA) \/ ZeroNorm(vecB)) => Last.ret = Zero
               /\ (vecA = vecB /\ ~ZeroNorm(vecA)) => Last.ret = FromInt(1)
               /\ (vecB = Opposite(vecA) /\ ~ZeroNorm(vecA)) => Last.ret = FromInt(0 - 1)
               /\ Last.ret = CosineSimilarity(SubSeq(vecA, 1, len), SubSeq(vecB, 1, len))

\* ------------------------------------------------ the search specification
\* A reader that calls search and getAll on the default context while a
\* second process runs one addEntity through updateGraph, one file-system
\* call at a time. The directory is fresh or holds the graph that one batch
\* transaction wrote.
Memcached == Ent("Memcached", "Database", <<"KV-Store">>)

SearchBatches ==
    {<<Redis1, Caching, Memcached, Rel("Redis", "Caching", "supports"),
       Rel("Caching", "Memcached", "supports")>>,
     <<Redis1, Caching, Rel("Redis", "Caching", "supports")>>,
     <<Redis2, Memcached>>}

StoreAfterBatch(ms) ==
    LET r == RunBatch(ms, EmptyGraph, 0)
    IN  [files |-> PutFile(NoFiles, DefaultContext, Serialize(r.graph)),
         backups |-> CreateSnapshot(NoFiles, NoFiles, DefaultContext, 0, DefaultMaxBackups),
         uuids |-> r.drawn]

SearchQueries == {"redis", "CACH", "kv", "e", " "}

SearchOps == MaxOps - 1

Writer == 2

SearchInit ==
    /\ \E s \in {FreshStore} \cup {StoreAfterBatch(ms) : ms \in SearchBatches} :
          /\ graphFiles = s.files
          /\ backups = s.backups
          /\ uuids = s.uuids
    /\ lockFile = NoLock
    /\ now = 0
    /\ maxBackups = DefaultMaxBackups
    /\ history = <<>>
    /\ ProcInit
    /\ VectorInit

\* The second process calls addEntity.
StartWrite ==
    /\ pc[Writer] = "idle"
    /\ calls' = [calls EXCEPT ![Writer] = [op |-> "addEntity", err |-> "pending", data |-> <<>>]]
    /\ Goto(Writer, "create")
    /\ UNCHANGED <<graphFiles, backups, lockFile, now, uuids, maxBackups, vecVars, history,
                   tries, seen, mem, alive>>

SearchQuery ==
    /\ Len(history) < SearchOps
    /\ \E q \in SearchQueries : Search(Str(q), Str(DefaultContext))

SearchGetAll ==
    /\ Len(history) < SearchOps
    /\ GetAll(Str(DefaultContext))

SearchNext ==
    \/ SearchQuery \/ SearchGetAll \/ StartWrite
    \/ TryCreate(Writer) \/ WritePid(Writer) \/ LoadAndMutate(Writer)
    \/ Snapshot(Writer) \/ Truncate(Writer) \/ WriteGraph(Writer)
    \/ ReleaseRead(Writer) \/ ReleaseUnlink(Writer)

SearchSpec == SearchInit /\ [][SearchNext]_vars

\* ------------------------------------------------------------------ C27
\* The query occurs in the name or in an observation, letter case aside.
Matches(e, query) ==
    LET q == Lower(query)
        texts == {Lower(e.name)} \cup {Lower(e.observations[i]) : i \in DOMAIN e.observations}
    IN  \E text \in texts : \E i \in 1..(Len(text) + 1) :
            /\ i + Len(q) - 1 <= Len(text)
            /\ \A j \in 1..Len(q) : text[i + j - 1] = q[j]

SearchCalls == {k \in DOMAIN history : history[k].op = "search" /\ history[k].err = ""}

QueryOf(call) == call.arg[1][1].s

\* C27: search(query) returns exactly the entities of the graph whose name or
\* at least one observation contains the query as a case-insensitive
\* substring, in the graph's order, together with exactly the relations whose
\* fromId or toId is the id of a returned entity.
C27_SearchExact ==
    \A k \in SearchCalls :
        LET call == history[k]
            graph == LoadGraph(call.pre, call.ctx)
            ret == call.ret
            ids == {ret.entities[j].id : j \in DOMAIN ret.entities}
            hits == {i \in DOMAIN graph.entities : Matches(graph.entities[i], QueryOf(call))}
            touched == {i \in DOMAIN graph.relations :
                            graph.relations[i].fromId \in ids \/ graph.relations[i].toId \in ids}
        IN  /\ IsSubsequence(ret.entities, graph.entities)
            /\ Len(ret.entities) = Cardinality(hits)
            /\ \A i \in hits : \E j \in DOMAIN ret.entities : ret.entities[j] = graph.entities[i]
            /\ IsSubsequence(ret.relations, graph.relations)
            /\ Len(ret.relations) = Cardinality(touched)
            /\ \A i \in touched :
                  \E j \in DOMAIN ret.relations : ret.relations[j] = graph.relations[i]

\* A search returned some of the entities, one of them for an observation
\* only, and some of the relations.
C27_Witness ==
    \E k \in SearchCalls :
        LET call == history[k]
            graph == LoadGraph(call.pre, call.ctx)
            ret == call.ret
        IN  /\ 0 < Len(ret.entities) /\ Len(ret.entities) < Len(graph.entities)
            /\ 0 < Len(ret.relations) /\ Len(ret.relations) < Len(graph.relations)
            /\ \E j \in DOMAIN ret.entities :
                  ~StrIncludes(Lower(ret.entities[j].name), Lower(QueryOf(call)))

\* ------------------------------------------------------------------ C28
\* The step is a call of search or getAll that returns or raises.
IsRead(h) == h # <<>> /\ h[Len(h)].op \in {"search", "getAll"}

\* C28: a call of search or getAll leaves the lock marker, the graph files,
\* the backup directory and the vector file as they are, and it returns a
\* result whether or not another process holds the lock (a blank query is a
\* ValidationError, with or without a lock).
C28_ReadsLockFree ==
    [][(Len(history') = Len(history) + 1 /\ IsRead(history'))
          => LET call == history'[Len(history')]
             IN  /\ UNCHANGED <<lockFile, graphFiles, backups, vectorFile>>
                 /\ IF call.op = "search" /\ Trim(call.arg[1][1].s) = ""
                    THEN call.err = "VALIDATION_ERROR"
                    ELSE call.err = ""]_vars

\* A search and a getAll returned what they read between the writer's
\* truncation of the graph file and its write, that is, under the writer's lock.
C28_Witness ==
    \A op \in {"search", "getAll"} :
        \E k \in DOMAIN history :
            /\ history[k].op = op /\ history[k].err = ""
            /\ DefaultContext \in DOMAIN history[k].pre
            /\ history[k].pre[DefaultContext] = <<>>

\* -------------------------------------------------- the load specification
\* getAll on a directory whose default graph file is absent or holds up to
\* MaxLines lines of any kind: headers, blank lines, text that is not JSON,
\* JSON that is not an object, entity lines with and without id or name,
\* relation lines.
MaxLines == 3

LegacyHeader == [type |-> "_aim", source |-> "local-knowledge-graph", version |-> "1.0.0"]
StoredRedis ==
    [type |-> "entity", id |-> NewId("Database", 0), name |-> "Redis",
     entityType |-> "Database", observations |-> <<"Cache">>]
LegacyEntity ==
    [type |-> "entity", name |-> "Caching", entityType |-> "Concept", observations |-> <<>>]
NamelessEntity == [type |-> "entity", entityType |-> "Concept"]
StoredRelation ==
    [type |-> "relation", fromId |-> NewId("Database", 0), toId |-> Md5("Caching"),
     fromName |-> "Redis", toName |-> "Caching", relationType |-> "supports"]

LoadLines ==
    {fileMarker, LegacyHeader, [text |-> " "], [text |-> "{\"type\":\"entity\","],
     [json |-> "null"], [json |-> "42"],
     StoredRedis, LegacyEntity, NamelessEntity, StoredRelation}

LoadInit ==
    /\ \/ graphFiles = NoFiles
       \/ \E n \in 0..MaxLines : \E lines \in [1..n -> LoadLines] :
             graphFiles = PutFile(NoFiles, DefaultContext, lines)
    /\ backups = NoFiles
    /\ uuids = 1
    /\ lockFile = NoLock
    /\ now = 0
    /\ maxBackups = DefaultMaxBackups
    /\ history = <<>>
    /\ ProcInit
    /\ VectorInit

LoadGetAll ==
    /\ history = <<>>
    /\ GetAll(Str(DefaultContext))

LoadNext == LoadGetAll

LoadSpec == LoadInit /\ [][LoadNext]_vars

\* ------------------------------------------------------------------ C29
\* A well-formed line: a JSON object tagged entity or relation; an entity
\* has an id, or a name from which loadGraph derives one.
WellFormed(line) ==
    /\ "text" \notin DOMAIN line /\ "json" \notin DOMAIN line
    /\ "type" \in DOMAIN line /\ line.type \in {"entity", "relation"}
    /\ line.type = "entity" => (~NoId(line) \/ "name" \in DOMAIN line)

\* The records of the well-formed lines tagged t, in file order; an entity
\* without id gets the md5 of its name.
RECURSIVE RecordsOf(_, _)
RecordsOf(lines, t) ==
    IF lines = <<>> THEN <<>>
    ELSE LET rest == RecordsOf(Tail(lines), t)
         IN  IF WellFormed(Head(lines)) /\ Head(lines).type = t
             THEN <<IF t = "entity" THEN WithId(Head(lines)) ELSE Head(lines)>> \o rest
             ELSE rest

\* C29: loadGraph never fails because of the file's content: an absent graph
\* file yields the empty graph and stays absent, and for a file with
\* malformed lines it returns exactly the entity and the relation records of
\* the well-formed lines, in file order.
C29_LoadSkipsMalformed ==
    \A k \in DOMAIN history :
        LET call == history[k]
        IN  call.op = "getAll" =>
               /\ call.err = ""
               /\ graphFiles = call.pre
               /\ IF call.ctx \notin DOMAIN call.pre THEN call.ret = EmptyGraph
                  ELSE /\ call.ret.entities = RecordsOf(call.pre[call.ctx], "entity")
                       /\ call.ret.relations = RecordsOf(call.pre[call.ctx], "relation")

\* getAll returned an entity from a file that also holds text that is not
\* JSON.
C29_Witness ==
    \E k \in DOMAIN history :
        LET call == history[k]
        IN  /\ call.op = "getAll" /\ call.err = ""
            /\ call.ctx \in DOMAIN call.pre
            /\ \E i \in DOMAIN call.pre[call.ctx] :
                  /\ "text" \in DOMAIN call.pre[call.ctx][i]
                  /\ ~IsBlank(call.pre[call.ctx][i])
            /\ call.ret.entities # <<>>

\* ---------------------------------------------------------------- FsDriver
\* The directory tree under basePath: a path (the segments of a key) maps to
\* a directory or to a file with its content; the empty path is basePath.
Dir == [dir |-> TRUE, content |-> ""]
File(value) == [dir |-> FALSE, content |-> value]

Null == "null"

\* The directories a path goes through, basePath first.
Ancestors(p) == {SubSeq(p, 1, n) : n \in 0..(Len(p) - 1)}

\* Path resolution: ENOTDIR through a file, ENOENT for a missing component.
Lookup(d, p) ==
    IF \E a \in Ancestors(p) : a \in DOMAIN d /\ ~d[a].dir THEN "ENOTDIR"
    ELSE IF p \notin DOMAIN d THEN "ENOENT"
    ELSE ""

\* read(key): fs.readFile; ENOENT is null, any other error a StorageError.
DriverRead(d, key) ==
    LET e == Lookup(d, key)
    IN  IF e = "ENOENT" THEN [err |-> "", ret |-> Null, disk |-> d]
        ELSE IF e # "" \/ d[key].dir THEN [err |-> "STORAGE_ERROR", ret |-> "", disk |-> d]
        ELSE [err |-> "", ret |-> d[key].content, disk |-> d]

\* write(key, value): fs.mkdir(dirname, {recursive: true}), then fs.writeFile;
\* the errors of both are raised as they are.
DriverWrite(d, key, value) ==
    IF \E a \in Ancestors(key) : a \in DOMAIN d /\ ~d[a].dir
    THEN [err |-> "ENOTDIR", ret |-> "", disk |-> d]
    ELSE LET made == [p \in DOMAIN d \cup Ancestors(key) |->
                        IF p \in DOMAIN d THEN d[p] ELSE Dir]
         IN  IF key \in DOMAIN made /\ made[key].dir
             THEN [err |-> "EISDIR", ret |-> "", disk |-> made]
             ELSE [err |-> "", ret |-> "",
                   disk |-> [p \in DOMAIN made \cup {key} |->
                               IF p = key THEN File(value) ELSE made[p]]]

\* exists(key): fs.access raised nothing.
DriverExists(d, key) == [err |-> "", ret |-> Lookup(d, key) = "", disk |-> d]

\* delete(key): fs.unlink; ENOENT is ignored, any other error a StorageError.
DriverDelete(d, key) ==
    LET e == Lookup(d, key)
    IN  IF e = "ENOENT" THEN [err |-> "", ret |-> "", disk |-> d]
        ELSE IF e # "" \/ d[key].dir THEN [err |-> "STORAGE_ERROR", ret |-> "", disk |-> d]
        ELSE [err |-> "", ret |-> "", disk |-> [p \in DOMAIN d \ {key} |-> d[p]]]

\* ------------------------------------------------ the driver specification
\* One FsDriver on a basePath that does not exist yet or is an empty
\* directory; the keys 'a', 'a/b' and 'test.txt'.
DriverKeys == {<<"a">>, <<"a", "b">>, <<"test.txt">>}
DriverValues == {"Hello Core", "v2"}

DriverInit ==
    /\ disk \in {<<>>, [p \in {<<>>} |-> Dir]}
    /\ graphFiles = NoFiles
    /\ backups = NoFiles
    /\ uuids = 0
    /\ lockFile = NoLock
    /\ now = 0
    /\ maxBackups = DefaultMaxBackups
    /\ history = <<>>
    /\ ProcInit
    /\ vectorFile = <<>>
    /\ vectors = [p \in Procs |-> <<>>]
    /\ isLoaded = [p \in Procs |-> FALSE]

\* The call returned or raised; the driver keeps no state of its own.
DriverCall(op, key, value, r) ==
    /\ Len(history) < MaxOps
    /\ disk' = r.disk
    /\ history' = Append(history, [op |-> op, key |-> key, value |-> value,
                                   err |-> r.err, ret |-> r.ret, pre |-> disk])
    /\ UNCHANGED <<graphFiles, backups, lockFile, now, uuids, maxBackups, procVars,
                   vectorFile, vectors, isLoaded>>

CallRead == \E k \in DriverKeys : DriverCall("read", k, "", DriverRead(disk, k))

CallWrite ==
    \E k \in DriverKeys, v \in DriverValues : DriverCall("write", k, v, DriverWrite(disk, k, v))

CallExists == \E k \in DriverKeys : DriverCall("exists", k, "", DriverExists(disk, k))

CallDelete == \E k \in DriverKeys : DriverCall("delete", k, "", DriverDelete(disk, k))

DriverNext == CallRead \/ CallWrite \/ CallExists \/ CallDelete

DriverSpec == DriverInit /\ [][DriverNext]_vars

\* ------------------------------------------------------------------ C30
\* The key-value map after the first n calls: the value of the last write of
\* k that returned, null when there is none or a delete of k returned since.
RECURSIVE ValueAt(_, _, _)
ValueAt(h, n, k) ==
    IF n = 0 THEN Null
    ELSE IF h[n].key = k /\ h[n].err = "" /\ h[n].op = "write" THEN h[n].value
    ELSE IF h[n].key = k /\ h[n].err = "" /\ h[n].op = "delete" THEN Null
    ELSE ValueAt(h, n - 1, k)

\* The disk after the n-th call.
DiskAfter(n) == IF n = Len(history) THEN disk ELSE history[n + 1].pre

\* C30: FsDriver behaves as a key-value map: read(k) returns the value last
\* written to k, or null when k was never written or was deleted since;
\* exists(k) is true exactly when read(k) is not null; delete of an absent key
\* raises nothing and changes no other key.
C30_KeyValueMap ==
    \A n \in DOMAIN history :
        LET call == history[n]
            value == ValueAt(history, n - 1, call.key)
        IN  /\ call.op = "read" => (call.err = "" /\ call.ret = value)
            /\ call.op = "exists" =>
                  /\ call.ret = (value # Null)
                  /\ call.ret = (DriverRead(call.pre, call.key).ret # Null)
            /\ (call.op = "delete" /\ value = Null) =>
                  /\ call.err = ""
                  /\ \A k \in DriverKeys \ {call.key} :
                        DriverRead(DiskAfter(n), k).ret = DriverRead(call.pre, k).ret

\* ------------------------------------------------------------------ C31
\* C31: while the process that created the lock marker is alive and the
\* marker is younger than lockTimeoutMs, a step that removes the marker is a
\* step of that process: no other process deletes it, in any interleaving of
\* the file-system steps of acquireLock and releaseLock.
C31_LiveMarkerRespected ==
    [][(/\ lockFile.exists /\ lockFile.creator \in alive /\ ~lockFile.old
        /\ ~lockFile'.exists)
          => pc'[lockFile.creator] # pc[lockFile.creator]]_vars

\* ------------------------------------------------- the acquire specification
\* acquireLock(retries) with nobody else at work, for every retry budget up
\* to MaxRetries, on a directory where another process, alive or dead, may
\* have left a marker that may have grown older than lockTimeoutMs.
MaxRetries == 3

\* The for loop of acquireLock from iteration i on; `live` are the pids for
\* which process.kill(pid, 0) raises nothing.
RECURSIVE AcquireLockWithin(_, _, _, _, _)
AcquireLockWithin(lock, self, live, maxRetries, i) ==
    IF i >= maxRetries THEN [ok |-> FALSE, lock |-> lock]
    ELSE IF ~lock.exists
    THEN [ok |-> TRUE,
          lock |-> [exists |-> TRUE, creator |-> self,
                    content |-> ToString(self), old |-> FALSE]]
    ELSE LET lockPid == ParseInt(lock.content, Procs)
             processAlive == lockPid # NaN /\ lockPid \in live
         IN  IF ~processAlive THEN AcquireLockWithin(NoLock, self, live, maxRetries, i + 1)
             ELSE IF lock.old THEN AcquireLockWithin(NoLock, self, live, maxRetries, i + 1)
             ELSE AcquireLockWithin(lock, self, live, maxRetries, i + 1)

Other == 2

AcquireInit ==
    /\ lockFile \in {NoLock, Marker(Other, ToString(Other)), Marker(Other, "")}
    /\ graphFiles = FreshStore.files
    /\ backups = FreshStore.backups
    /\ uuids = FreshStore.uuids
    /\ now = 0
    /\ maxBackups = DefaultMaxBackups
    /\ history = <<>>
    /\ ProcInit
    /\ VectorInit

\* acquireLock(retries) returns; the record keeps the marker and the live
\* processes it found.
CallAcquireLock ==
    /\ Len(history) < MaxOps
    /\ \E retries \in 1..MaxRetries :
          LET acq == AcquireLockWithin(lockFile, Self, alive, retries, 0)
          IN  /\ lockFile' = acq.lock
              /\ history' = Append(history,
                     [op |-> "acquireLock", arg |-> retries, ret |-> acq.ok,
                      lock |-> lockFile, live |-> alive])
    /\ UNCHANGED <<graphFiles, backups, now, uuids, maxBackups, vecVars, procVars>>

\* releaseLock().
CallReleaseLock ==
    /\ Len(history) < MaxOps
    /\ lockFile' = ReleaseLock(lockFile, Self)
    /\ history' = Append(history,
           [op |-> "releaseLock", arg |-> 0, ret |-> TRUE, lock |-> lockFile, live |-> alive])
    /\ UNCHANGED <<graphFiles, backups, now, uuids, maxBackups, vecVars, procVars>>

\* The other process dies.
OtherDies ==
    /\ Other \in alive
    /\ alive' = alive \ {Other}
    /\ UNCHANGED <<graphFiles, backups, lockFile, now, uuids, maxBackups, vecVars, history,
                   pc, tries, seen, mem, calls>>

AcquireNext == CallAcquireLock \/ CallReleaseLock \/ OtherDies \/ Age

AcquireSpec == AcquireInit /\ [][AcquireNext]_vars

\* ------------------------------------------------------------------ C32
\* The marker records the pid of a dead process, or it is older than
\* lockTimeoutMs.
Abandoned(lock, live) ==
    /\ lock.exists
    /\ \/ ParseInt(lock.content, Procs) \in Procs \ live
       \/ lock.old

\* C32: an abandoned marker never blocks a writer: acquireLock(retries) on a
\* marker that records a dead process, or a live one but is older than
\* lockTimeoutMs, returns true, for every retries >= 1.
C32_AbandonedMarkerNeverBlocks ==
    \A k \in DOMAIN history :
        LET call == history[k]
        IN  (call.op = "acquireLock" /\ call.arg >= 1 /\ Abandoned(call.lock, call.live))
               => call.ret = TRUE

\* The same for every retry budget of two or more.
C32_TwoRetries ==
    \A k \in DOMAIN history :
        LET call == history[k]
        IN  (call.op = "acquireLock" /\ call.arg >= 2 /\ Abandoned(call.lock, call.live))
               => call.ret = TRUE

\* ------------------------------------------------------------------ C33
\* The mutator returned and left the graph it was given as it was.
NoOp(call) == IsWrite(call) /\ call.err = "" /\ call.mem = call.loaded

\* C33: a no-op mutation (a relation that already exists, an entity with no
\* new observations) leaves the graph files and the set of backup snapshots
\* unchanged.
C33_NoOpIsSilent ==
    (Len(history) > 0 /\ NoOp(Last))
        => /\ graphFiles = Last.pre
           /\ backups = Last.preb

\* The graph files alone.
C33_NoOpKeepsGraph ==
    (Len(history) > 0 /\ NoOp(Last)) => graphFiles = Last.pre

\* ------------------------------------------------------------------ C34
\* C34: when the createSnapshot of a committed write returns, the snapshot it
\* has just created is present, and the retained snapshots of the context are
\* exactly the most recent ones, up to the retention limit, of those that
\* were there plus the new one.
C34_PruneKeepsMostRecent ==
    [][LET call == history'[Len(history')]
       IN  (/\ Len(history') = Len(history) + 1
            /\ IsWrite(call) /\ call.err = "" /\ call.ctx \in DOMAIN graphFiles)
              => LET new == BackupName(call.ctx, now)
                     before == OwnBackups(backups, call.ctx) \cup {new}
                     after == OwnBackups(backups', call.ctx)
                 IN  /\ new \in after
                     /\ after \subseteq before
                     /\ Cardinality(after) =
                           IF Cardinality(before) > maxBackups THEN maxBackups
                           ELSE Cardinality(before)
                     /\ \A f \in after, g \in before \ after : StrLess(g, f)]_vars

\* ------------------------------------------------------------------ C35
\* C35: undo neither consumes nor creates a snapshot, and an undo that
\* follows an undo of the same context changes nothing: the graph files and
\* the backup set are as after the first, with the same outcome.
C35_UndoTwiceIsUndoOnce ==
    /\ (Len(history) > 0 /\ Last.op = "undo") => backups = Last.preb
    /\ (Len(history) > 1 /\ Last.op = "undo" /\ Prev.op = "undo" /\ Last.ctx = Prev.ctx)
          => /\ graphFiles = Last.pre
             /\ Last.err = Prev.err

\* Two undos in a row succeeded on a context that has two snapshots of
\* different content.
C35_Witness ==
    /\ Len(history) > 1
    /\ Last.op = "undo" /\ Prev.op = "undo" /\ Last.ctx = Prev.ctx
    /\ Last.err = "" /\ Prev.err = ""
    /\ \E f \in OwnBackups(backups, Last.ctx), g \in OwnBackups(backups, Last.ctx) :
          backups[f] # backups[g]

\* ------------------------------------------- the integrity specification
\* One caller on a fresh directory who adds entities and relations, ingests
\* files and undoes, all on the default context.
LayerFile ==
    IngestOp("Layer", "Concept", <<>>, "",
             <<Target("Ghost", "includes"), Target("Caching", "related_to")>>)
MenuFile == IngestOp("Menu", "Concept", <<>>, "recipe-1", <<Target("Recipe", "related_to")>>)

\* A file of Bento Box data {dish, title, flavor} without an id: the URN is
\* filled in from the flavor and the hash of the title, the entity is named
\* after the dish.
Bento(dish, title, flavor) ==
    IngestOp(IF dish # "" THEN dish ELSE title, flavor, <<>>,
             "urn:uks:local:" \o CleanFlavor(OrConcept(flavor)) \o ":" \o Md5(title), <<>>)

MisoFile == Bento("Miso", "Soup", "Concept")
RamenFile == Bento("Ramen", "Soup", "Concept")

IntegrityBatches ==
    {<<RedisFile>>, <<PatternFile, LayerFile>>, <<RecipeFile, MenuFile>>,
     <<MisoFile, RamenFile>>}

IntegrityEntities == {Redis1, Caching}

IntegrityRelations == {Rel("Redis", "Caching", "supports"), Rel("recipe-1", "Redis", "uses")}

IntegrityInit ==
    /\ graphFiles = FreshStore.files
    /\ backups = FreshStore.backups
    /\ uuids = FreshStore.uuids
    /\ lockFile = NoLock
    /\ now = 0
    /\ maxBackups = DefaultMaxBackups
    /\ history = <<>>
    /\ ProcInit
    /\ VectorInit

IntegrityAddEntity ==
    /\ Len(history) < MaxOps
    /\ \E e \in IntegrityEntities : AddEntity(e, DefaultContext)

IntegrityAddRelation ==
    /\ Len(history) < MaxOps
    /\ \E r \in IntegrityRelations : AddRelation(r, DefaultContext)

IntegrityIngest ==
    /\ Len(history) < MaxOps
    /\ \E ops \in IntegrityBatches : Ingest(ops)

IntegrityUndo == Len(history) < MaxOps /\ Undo(DefaultContext)

IntegrityTick == Len(history) < MaxOps /\ Tick

IntegrityNext ==
    IntegrityAddEntity \/ IntegrityAddRelation \/ IntegrityIngest \/ IntegrityUndo
        \/ IntegrityTick

IntegritySpec == IntegrityInit /\ [][IntegrityNext]_vars

\* ------------------------------------------------------------------ C36
\* The names the files of a batch give their own entities.
FileNames(ops) == {ops[k].name : k \in 1..Len(ops)}

\* C36: an ingest never raises NotFoundError, and after it returned every
\* relation target of its files is the name of exactly one entity, unless more
\* had the name before; a target that no entity was named after and that is no
\* file's own entity is a 'Concept' with no observations, and the relation
\* from the file's entity to it is in the graph.
C36_IngestVivifiesTargets ==
    (Len(history) > 0 /\ Last.op = "ingest")
        => /\ Last.err # "NOT_FOUND"
           /\ Last.err = ""
                => LET old == Last.loaded
                       new == LoadGraph(graphFiles, DefaultContext)
                   IN  \A k \in 1..Len(Last.arg) : \A j \in 1..Len(Last.arg[k].relations) :
                          LET rel == Last.arg[k].relations[j]
                              was == Cardinality(NamedIn(old, rel.to))
                              fresh == was = 0 /\ rel.to \notin FileNames(Last.arg)
                          IN  /\ Cardinality(NamedIn(new, rel.to)) = (IF was = 0 THEN 1 ELSE was)
                              /\ fresh =>
                                   \A i \in NamedIn(new, rel.to) :
                                      /\ new.entities[i].entityType = "Concept"
                                      /\ new.entities[i].observations = <<>>
                              /\ \E r \in 1..Len(new.relations) :
                                    /\ new.relations[r].fromName = Last.arg[k].name
                                    /\ new.relations[r].toName = rel.to
                                    /\ new.relations[r].relationType = rel.type

\* An ingest of two files that name the same missing target created one stub
\* for it.
C36_Witness ==
    /\ Len(history) > 0 /\ Last.op = "ingest" /\ Last.err = ""
    /\ \E k, l \in 1..Len(Last.arg) :
          /\ k # l
          /\ \E j \in 1..Len(Last.arg[k].relations), m \in 1..Len(Last.arg[l].relations) :
                /\ Last.arg[k].relations[j].to = Last.arg[l].relations[m].to
                /\ NamedIn(Last.loaded, Last.arg[k].relations[j].to) = {}
                /\ Cardinality(NamedIn(LoadGraph(graphFiles, DefaultContext),
                                       Last.arg[k].relations[j].to)) = 1

\* ------------------------------------------------------------------ C38
\* The graph the default context's file holds.
Persisted == LoadGraph(graphFiles, DefaultContext)

\* C38: from an empty context, after every sequence of addEntity, addRelation,
\* ingest and undo, no two entity records of the graph file have the same
\* name.
C38_NamesUnique ==
    \A i, j \in 1..Len(Persisted.entities) :
        Persisted.entities[i].name = Persisted.entities[j].name => i = j

\* A call committed that named an entity the file already held: an addEntity
\* of its name, or an ingest of a file of its name or with it as a target.
C38_Witness ==
    /\ Len(history) > 1 /\ Last.err = ""
    /\ Len(Persisted.entities) > 1
    /\ \/ /\ Last.op = "addEntity"
          /\ NamedIn(Last.loaded, Last.arg[1].name) # {}
       \/ /\ Last.op = "ingest"
          /\ \E k \in 1..Len(Last.arg) :
                /\ NamedIn(Last.loaded, Last.arg[k].name) # {}
                /\ \E j \in 1..Len(Last.arg[k].relations) :
                      NamedIn(Last.loaded, Last.arg[k].relations[j].to) # {}

\* ------------------------------------------------------------------ C39
\* The entity records of the graph that carry the id.
WithIdOf(graph, id) == {i \in 1..Len(graph.entities) : graph.entities[i].id = id}

\* C39: from an empty context, after every sequence of addEntity, addRelation,
\* ingest and undo, each relation's fromId and toId are ids of entity records
\* of the same file, and fromName and toName are the names of the records
\* that carry these ids.
C39_ReferentialIntegrity ==
    \A r \in 1..Len(Persisted.relations) :
        LET rel == Persisted.relations[r]
        IN  /\ WithIdOf(Persisted, rel.fromId) # {}
            /\ WithIdOf(Persisted, rel.toId) # {}
            /\ \A i \in WithIdOf(Persisted, rel.fromId) :
                  Persisted.entities[i].name = rel.fromName
            /\ \A i \in WithIdOf(Persisted, rel.toId) :
                  Persisted.entities[i].name = rel.toName

\* Each relation has an entity record of its fromId and fromName and one of
\* its toId and toName.
C39_EndpointsExist ==
    \A r \in 1..Len(Persisted.relations) :
        LET rel == Persisted.relations[r]
        IN  /\ \E i \in WithIdOf(Persisted, rel.fromId) :
                  Persisted.entities[i].name = rel.fromName
            /\ \E i \in WithIdOf(Persisted, rel.toId) :
                  Persisted.entities[i].name = rel.toName

\* Referential integrity wherever the ids of the file are distinct.
C39_IntegrityUnderDistinctIds ==
    Distinct(Persisted.entities) => C39_ReferentialIntegrity

\* ------------------------------------------------------------------ C40
\* C40: after every sequence of addEntity and ingest transactions no two
\* entity records of the graph file share an id, also when ingest takes the
\* id from the file's data or from the hash of the file's title.
C40_IdsUnique ==
    (\A k \in 1..Len(history) : history[k].op \in {"addEntity", "ingest"})
        => Distinct(Persisted.entities)

\* Ids are distinct as long as no ingested file brought its own id.
C40_GeneratedIdsUnique ==
    (\A k \in 1..Len(history) :
        history[k].op = "ingest" => \A f \in 1..Len(history[k].arg) : history[k].arg[f].id = "")
        => Distinct(Persisted.entities)

\* -------------------------------------------------- the dry-run specification
\* One caller with a vector manager who ingests with and without dryRun, on a
\* fresh or populated directory where a dead process may have left its marker.
\* A file the pattern matched: JSON with data, text that JSON.parse rejects,
\* or a file that is not .json and that no plugin handles.
JsonFile(data) == [kind |-> "json", data |-> data]
BrokenFile == [kind |-> "broken", data |-> <<>>]
OtherFile == [kind |-> "other", data |-> <<>>]

\* The positions of the files of a kind, in the order of the glob.
Positions(files, kind) ==
    SelectSeq([k \in 1..Len(files) |-> k], LAMBDA k : files[k].kind = kind)

\* report.preview's entry for the file at position k.
PreviewOf(files, k) ==
    [file |-> k,
     entity |-> [name |-> files[k].data.name, type |-> files[k].data.entityType,
                 observations |-> files[k].data.observations],
     relations |-> files[k].data.relations]

\* The loop over the files: what it leaves in report.preview, report.errors
\* and batchOperations when options.dryRun reads as `simulate`.
Queue(files, simulate) ==
    LET json == Positions(files, "json")
    IN  [preview |-> IF simulate THEN [j \in 1..Len(json) |-> PreviewOf(files, json[j])]
                     ELSE <<>>,
         errors |-> Positions(files, "broken"),
         ops |-> IF simulate THEN <<>> ELSE [j \in 1..Len(json) |-> files[json[j]].data]]

\* ingest(pattern, {dryRun}) where the code's tests of options.dryRun read
\* `simulate`: the loop over the files, then "Execute Batch".
IngestAs(files, dryRun, simulate) ==
    LET q == Queue(files, simulate)
        acq == AcquireLockAlone(lockFile, Self, 0)
        graph == LoadGraph(graphFiles, DefaultContext)
        r == RunOperations(q.ops, graph, uuids, ManagerOf(Self), vectorFile)
        report(err, loaded, mutated) ==
            [op |-> "ingest", dryRun |-> dryRun, ctx |-> DefaultContext, arg |-> files,
             err |-> err, ret |-> "", preview |-> q.preview, errors |-> q.errors,
             pre |-> graphFiles, preb |-> backups, lock |-> lockFile,
             loaded |-> loaded, mem |-> mutated, prev |-> vectorFile, prem |-> vectors,
             drawn |-> uuids]
    IN  /\ IF simulate \/ Len(q.ops) = 0
           THEN /\ UNCHANGED <<graphFiles, backups, lockFile, uuids, vecVars>>
                /\ history' = Append(history, report("", EmptyGraph, EmptyGraph))
           ELSE IF ~acq.ok
           THEN /\ lockFile' = acq.lock
                /\ UNCHANGED <<graphFiles, backups, uuids, vecVars>>
                /\ history' = Append(history, report("LOCK_ERROR", EmptyGraph, EmptyGraph))
           ELSE /\ uuids' = r.drawn
                /\ vectorFile' = r.file
                /\ vectors' = [vectors EXCEPT ![Self] = r.vm.vectors]
                /\ isLoaded' = [isLoaded EXCEPT ![Self] = r.vm.loaded]
                /\ UNCHANGED disk
                /\ IF Commits(r)
                   THEN /\ backups' = CreateSnapshot(backups, graphFiles, DefaultContext,
                                                     now, maxBackups)
                        /\ graphFiles' = PutFile(graphFiles, DefaultContext,
                                                 Serialize(r.graph))
                   ELSE UNCHANGED <<graphFiles, backups>>
                /\ lockFile' = ReleaseLock(acq.lock, Self)
                /\ history' = Append(history, report(r.threw, graph, r.graph))
        /\ UNCHANGED <<now, maxBackups, procVars>>

\* ingest as it would be if it ignored options.dryRun.
IngestDeaf(files, dryRun) == IngestAs(files, dryRun, FALSE)

\* IngestManager.ingest(pattern, {dryRun}).
IngestCall(files, dryRun) == IngestAs(files, dryRun, dryRun)

DryFiles ==
    {<<>>, <<JsonFile(RedisData)>>, <<BrokenFile, JsonFile(RecipeData)>>,
     <<JsonFile(RecipeData), OtherFile, JsonFile(DishData)>>,
     <<JsonFile(RedisData), JsonFile(BlankIdData)>>}

DryInit ==
    /\ \E store \in {FreshStore, InitialStore} :
          /\ graphFiles = store.files
          /\ backups = store.backups
          /\ uuids = store.uuids
    /\ lockFile \in {NoLock, StaleMarker}
    /\ now = 0
    /\ maxBackups = DefaultMaxBackups
    /\ history = <<>>
    /\ ProcInit
    /\ VectorInit

DryIngest ==
    /\ Len(history) < MaxOps
    /\ \E files \in DryFiles, dryRun \in BOOLEAN : IngestCall(files, dryRun)

DryTick == Len(history) < MaxOps /\ Tick

DryNext == DryIngest \/ DryTick

DryRunSpec == DryInit /\ [][DryNext]_vars

\* ------------------------------------------------------------------ C37
\* C37: an ingest with dryRun returns without error and leaves the lock
\* marker, the graph files, the backups, the vector file and the manager's
\* vectors as they were, and report.preview lists, in the order of the files,
\* the entity (name, type, observations) and the relations of every file that
\* JSON data was read from, and nothing else.
C37_DryRunWritesNothing ==
    (Len(history) > 0 /\ Last.dryRun)
        => /\ Last.err = ""
           /\ lockFile = Last.lock
           /\ graphFiles = Last.pre
           /\ backups = Last.preb
           /\ vectorFile = Last.prev
           /\ vectors = Last.prem
           /\ uuids = Last.drawn
           /\ LET files == Last.arg
                  json == {k \in 1..Len(files) : files[k].kind = "json"}
              IN  /\ Len(Last.preview) = Cardinality(json)
                  /\ \A k \in json : \E j \in 1..Len(Last.preview) :
                        /\ Last.preview[j].file = k
                        /\ Last.preview[j].entity.name = files[k].data.name
                        /\ Last.preview[j].entity.type = files[k].data.entityType
                        /\ Last.preview[j].entity.observations = files[k].data.observations
                        /\ Last.preview[j].relations = files[k].data.relations
                  /\ \A i, j \in 1..Len(Last.preview) :
                        i < j => Last.preview[i].file < Last.preview[j].file

\* A dry run of files that the same call without dryRun would have written,
\* on a directory with a graph file, vectors and a dead process's marker.
C37_Witness ==
    /\ Len(history) > 1 /\ Last.dryRun /\ ~Prev.dryRun
    /\ Prev.err = "" /\ Prev.pre # Last.pre
    /\ Len(vectorFile) > 0
    /\ Len(Last.preview) > 1
    /\ \E k \in 1..Len(Last.arg) :
          /\ Last.arg[k].kind = "json"
          /\ NamedIn(LoadGraph(graphFiles, DefaultContext), Last.arg[k].data.name) = {}

====
